---- MODULE Spec2Model ----
(***************************************************************************)
(* Narration cache (AudioCacheManager) and playback coordinator            *)
(* (AudioPlayerManager) of the audiobook reader, as one state machine.     *)
(*                                                                         *)
(* JavaScript runs one task at a time.  A macrotask (a public call, a      *)
(* timer, a network or engine completion) runs to its first await; the     *)
(* continuations that a settled promise wakes are microtasks and run, in   *)
(* the order they were registered, before the next macrotask.  The         *)
(* variable mq is that microtask queue: every macrotask action is guarded  *)
(* by mq = <<>>, and MicroStep runs the head of the queue.                 *)
(***************************************************************************)
EXTENDS Integers, Sequences, FiniteSets, TLC

\* ---------------------------------------------------------------- bounds
NumPar == 3            \* paragraphs of the chapter (allParagraphs.length)
MaxReq == 2            \* synthesis requests issued in one behaviour
MaxCalls == 2          \* getAudio invocations that can be outstanding at once
MaxCacheSize == 2      \* config.maxCacheSize, scaled down from 20
MaxPreloadDistance == 1 \* config.maxPreloadDistance, scaled down from 8
MaxSeeds == 1          \* seedCache invocations that can be outstanding at once
MaxSounds == 2         \* sound objects the playback engine holds at once
MaxInputs == 3         \* calls the UI makes to the coordinator in one behaviour
MaxToggles == 1        \* togglePlayback calls the UI can make beyond MaxInputs calls
NumParagraphs == 6     \* paragraphs of the chapter a timer body is run on in isolation

\* ------------------------------------------------------- program constants
PreloadCharacterThreshold == 1000
KeepRange == 3
ParagraphLength == 400
DefaultMaxPreloadDistance == 8

Idx == 0 .. (NumPar - 1)
Calls == 1 .. MaxCalls
Reqs == 1 .. MaxReq
Sounds == 1 .. MaxSounds
Voices == {"v1", "v2"}
Speeds == {100, 200}     \* playback rates in hundredths
SpeedArgs == {10, 100, 200, 500}  \* arguments of setPlaybackSpeed, in and out of range

VARIABLES
    \* ---- AudioCacheManager
    cache,               \* Map<number, ParagraphAudioData>
    activeRequests,      \* Map<number, Promise<void>>: index -> request id, 0 = no entry
    narratorVoice,
    dialogueVoice,
    currentPlaybackSpeed,\* hundredths
    reqs,                \* the _loadAudioInternal invocations in flight
    nextReq,             \* next request id
    calls,               \* getAudio invocations
    timers,              \* pending triggerPreload timers
    seeds,               \* seedCache invocations awaiting the duration probe
    evicted,             \* indices cleanupCache removed, no fetch issued since
    spared,              \* indices cleanupCache skipped because isOffline
    failed,              \* indices whose fetch failed, no getAudio call for them since
    context,             \* currentNovelName / currentChapterNumber: a content id, 0 = null
    archive,             \* the saveParagraphAudio calls made to the durable archive
    mq,                  \* microtask queue
    \* ---- AudioPlayerManager
    sound,               \* this.sound: a sound id, 0 = null
    currentIndex,        \* -1 = null
    isPlaying,
    isLoading,
    operationLock,
    completionHandled,
    playbackSpeed,       \* hundredths
    delayMs,             \* autoAdvanceConfig.delayMs in 1/200 ms
    ops,                 \* playParagraph invocations
    tog,                 \* the togglePlayback invocation in flight
    clean,               \* the cleanup invocation in flight
    advTimers,           \* pending auto-advance timers (to-index)
    playResult,          \* what the last playParagraph to return returned
    toggleResult,        \* what the last togglePlayback to return returned
    rateFailures,        \* the setRateAsync calls of the last setPlaybackSpeed that
                         \* the engine rejected: the shouldCorrectPitch of each
    inputs,              \* calls the UI has made to the coordinator
    \* ---- playback engine
    engine,              \* the Audio.Sound objects
    \* ---- one run of the triggerPreload timer body on given arguments
    pass,                \* its arguments and the loads it issued, in order
    \* ---- one run of the completion test of the status callback on a given status
    status,              \* the status, the rate, and whether completion was declared
    \* ---- AudioContext (the presentation layer)
    ui                   \* the callbacks given to setCallbacks and what they maintain

cacheVars == <<cache, activeRequests, narratorVoice, dialogueVoice,
               currentPlaybackSpeed, reqs, nextReq, calls, timers, seeds,
               evicted, spared, failed, context, archive, mq>>

playerVars == <<sound, currentIndex, isPlaying, isLoading, operationLock,
                completionHandled, playbackSpeed, delayMs, ops, tog, clean,
                advTimers, playResult, toggleResult, rateFailures, inputs, engine>>

vars == <<cacheVars, playerVars, pass, status, ui>>

Min(a, b) == IF a < b THEN a ELSE b
Max(a, b) == IF a > b THEN a ELSE b

\* ------------------------------------------------------------ cache records
\* A ParagraphAudioData object.  uri = 0 is "audio_uri undefined"; a positive
\* uri is the temp file written by the synthesis request of that id; a
\* negative uri is a file of the durable archive.
\* nv and dv are not fields of the object: they record the voices the audio
\* behind audio_uri was synthesized with ("-" when there is none).
\* paragraph_text is the chapter the text of the record was taken from (0: the
\* chapter loaded first; the text at an index differs from chapter to chapter).
NoEntry == [present |-> FALSE, audio_received |-> FALSE, audio_uri |-> 0,
            is_loading |-> FALSE, isOffline |-> FALSE, nv |-> "-", dv |-> "-",
            paragraph_text |-> 0]

PendingEntry == [present |-> TRUE, audio_received |-> FALSE, audio_uri |-> 0,
                 is_loading |-> TRUE, isOffline |-> FALSE, nv |-> "-", dv |-> "-",
            paragraph_text |-> 0]

FailedEntry == [present |-> TRUE, audio_received |-> FALSE, audio_uri |-> 0,
                is_loading |-> FALSE, isOffline |-> FALSE, nv |-> "-", dv |-> "-",
            paragraph_text |-> 0]

ReadyEntry(r, n, d) == [present |-> TRUE, audio_received |-> TRUE, audio_uri |-> r,
                        is_loading |-> FALSE, isOffline |-> FALSE, nv |-> n, dv |-> d,
                        paragraph_text |-> 0]

DurableUri(i) == 0 - (i + 1)

\* a seeded record that is not marked received
UnreceivedSeed(i) == [present |-> TRUE, audio_received |-> FALSE,
                      audio_uri |-> DurableUri(i),
                      is_loading |-> FALSE, isOffline |-> TRUE, nv |-> "-", dv |-> "-",
                   paragraph_text |-> 0]

SeededEntry(i) == [present |-> TRUE, audio_received |-> TRUE,
                   audio_uri |-> DurableUri(i),
                   is_loading |-> FALSE, isOffline |-> TRUE, nv |-> "-", dv |-> "-",
                   paragraph_text |-> 0]

\* audio_received === true && typeof audio_uri === 'string' && audio_uri.length > 0
IsValid(e) == e.present /\ e.audio_received /\ e.audio_uri # 0

\* ctx is not program state: the content the paragraph text of the request was
\* taken from (the context at the time of the call).  text is the paragraphText
\* parameter of _loadAudioInternal (the chapter it was taken from).
NoReq == [st |-> "unused", idx |-> 0, nv |-> "-", dv |-> "-",
          loader |-> 0, waiters |-> <<>>, ctx |-> 0, text |-> 0]

\* a request whose promise has settled
DoneReq == [NoReq EXCEPT !.st = "done"]

\* A getAudio invocation.  st: "loading" (awaits loadAudioForParagraph),
\* "waiting" (awaits the promise of activeRequests), "returned"; req: the
\* request it awaits; res: the uri of the record returned (0: null);
\* op: the caller is playParagraph.  err and retry are not program state: err
\* records that the request the invocation last awaited ended in an error, retry
\* that the invocation came after a failed fetch of its index (it was called on an
\* index whose last fetch failed, or it awaited a fetch that failed).
\* text: the paragraphText and allParagraphs parameters (the chapter they were
\* taken from).
NoCall == [st |-> "idle", idx |-> 0, req |-> 0, res |-> 0, op |-> FALSE, err |-> FALSE,
           retry |-> FALSE, text |-> 0]

\* A playParagraph invocation in flight.  pc: "unloading" (stopCurrentPlayback
\* awaits unloadAsync of snd), "getAudio", "creating" (awaits createAsync of
\* snd).  When it returns, playResult becomes "true", "false" (false, and
\* onError was not called) or "error" (false, after onError was called).
\* text: its paragraphText and allParagraphs parameters (the chapter they were
\* taken from).
NoOp == [pc |-> "idle", idx |-> 0, snd |-> 0, text |-> 0]

\* When togglePlayback returns, toggleResult becomes "true", "false" (false,
\* and onError was not called) or "error" (false, after onError was called).

\* An Audio.Sound of the engine.  st: "none" (not loaded), "loading"
\* (createAsync has not resolved yet), "playing", "paused", "finished"; idx: the paragraph its status callback was created
\* for; early: the callback's earlyPreloadTriggered.  seen and adv are not
\* program state: seen records that a status callback declared this stream
\* complete, adv counts the auto-advance triggers raised for it.  rate (in
\* hundredths) and shouldCorrectPitch are what createAsync or setRateAsync last
\* gave the engine for it.
NoSound == [st |-> "none", idx |-> 0, early |-> FALSE, seen |-> FALSE, adv |-> 0,
            rate |-> 100, shouldCorrectPitch |-> FALSE]

NoAsync == [pc |-> "idle", snd |-> 0]

\* The presentation layer.  attached: onStateChange, onAutoAdvance and onError are
\* set (setCallbacks was called); isPlaying: the isPlaying state of AudioContext;
\* isTransitioning: isTransitioning.current; clear: a playParagraph call of
\* AudioContext has been answered false and its continuation, which resets
\* isTransitioning, has not run yet.  content: the chapter whose paragraphs the
\* content state holds (0: the chapter loaded first); loading: the chapter a
\* loadChapter in flight is loading (-1: none).  played is not program
\* state: it lists, in order, the paragraphs whose sound the engine has started.
NoUi == [attached |-> FALSE, isPlaying |-> FALSE, isTransitioning |-> FALSE,
         clear |-> FALSE, played |-> <<>>, content |-> 0, loading |-> 0 - 1]

\* The mutable state, passed through the operators below.  text is the
\* paragraph text (and list) in scope: a caller takes it from the content state,
\* a continuation or a timer body from its closure.  out is the outcome
\* of loadAudioForParagraph's synchronous part; blocked is set when a step
\* needs more request ids, sounds or invocation slots than the bounds allow.
St == [cache |-> cache, act |-> activeRequests, reqs |-> reqs, nreq |-> nextReq,
       calls |-> calls, timers |-> timers, mq |-> mq, cspeed |-> currentPlaybackSpeed,
       evicted |-> evicted, spared |-> spared, failed |-> failed,
       context |-> context, archive |-> archive,
       sound |-> sound, currentIndex |-> currentIndex, isPlaying |-> isPlaying,
       isLoading |-> isLoading, lock |-> operationLock,
       completionHandled |-> completionHandled, playbackSpeed |-> playbackSpeed,
       delayMs |-> delayMs, ops |-> ops, tog |-> tog, clean |-> clean,
       advTimers |-> advTimers, playResult |-> playResult,
       toggleResult |-> toggleResult, rateFailures |-> rateFailures,
       inputs |-> inputs,
       engine |-> engine,
       ui |-> ui,
       text |-> ui.content,
       out |-> 0, blocked |-> FALSE]

Commit(S) ==
    /\ ~S.blocked
    /\ cache' = S.cache
    /\ activeRequests' = S.act
    /\ reqs' = S.reqs
    /\ nextReq' = S.nreq
    /\ calls' = S.calls
    /\ timers' = S.timers
    /\ mq' = S.mq
    /\ currentPlaybackSpeed' = S.cspeed
    /\ evicted' = S.evicted
    /\ spared' = S.spared
    /\ failed' = S.failed
    /\ context' = S.context
    /\ archive' = S.archive
    /\ sound' = S.sound
    /\ currentIndex' = S.currentIndex
    /\ isPlaying' = S.isPlaying
    /\ isLoading' = S.isLoading
    /\ operationLock' = S.lock
    /\ completionHandled' = S.completionHandled
    /\ playbackSpeed' = S.playbackSpeed
    /\ delayMs' = S.delayMs
    /\ ops' = S.ops
    /\ tog' = S.tog
    /\ clean' = S.clean
    /\ advTimers' = S.advTimers
    /\ playResult' = S.playResult
    /\ toggleResult' = S.toggleResult
    /\ rateFailures' = S.rateFailures
    /\ inputs' = S.inputs
    /\ engine' = S.engine
    /\ ui' = IF S.ui.clear
             THEN [S.ui EXCEPT !.clear = FALSE, !.isTransitioning = FALSE]
             ELSE S.ui
    /\ UNCHANGED <<narratorVoice, dialogueVoice, seeds, pass, status>>

\* A microtask: "L" the loader's continuation of a load promise (id: the getAudio
\* call that awaits the loader, 0 for a prefetch; idx; ok: fulfilled or rejected),
\* "W" a waiter's continuation (id: the call; ok), "G" getAudio's continuation
\* after loadAudioForParagraph (id: the call; res: the uri returned, 0 for null),
\* "P" playParagraph's continuation after getAudio (id: the invocation).
Task(k, id, idx, ok, res) == [k |-> k, id |-> id, idx |-> idx, ok |-> ok, res |-> res]

\* triggerPreload: schedules the pass; the timer captures the index, the speed
\* and the paragraph list
TriggerPreload(S, i) ==
    [S EXCEPT !.timers = @ \cup {[idx |-> i, speed |-> S.cspeed, text |-> S.text]}]

\* Outcomes of loadAudioForParagraph's synchronous part
Started == 0 - 1000
\* (S.out = Started: a request was issued and is awaited; otherwise S.out is the
\*  uri of the record returned, 0 for null)

\* _loadAudioInternal up to its await of fetch, and activeRequests.set
StartRequest(S, i, loader) ==
    LET r == S.nreq IN
    IF r \notin Reqs
    THEN [S EXCEPT !.blocked = TRUE, !.out = Started]
    ELSE [S EXCEPT !.cache[i] = [PendingEntry EXCEPT !.paragraph_text = S.text],
                   !.act[i] = r,
                   !.reqs[r] = [st |-> "fetching", idx |-> i,
                                nv |-> narratorVoice, dv |-> dialogueVoice,
                                loader |-> loader, waiters |-> <<>>,
                                ctx |-> S.context, text |-> S.text],
                   !.nreq = r + 1,
                   !.evicted = @ \ {i},
                   !.out = Started]

\* loadAudioForParagraph up to its await of the load promise
LoadAudioForParagraph(S, i, loader) ==
    LET existing == S.cache[i] IN
    IF IsValid(existing)
    THEN [S EXCEPT !.out = existing.audio_uri]
    ELSE LET S1 == IF existing.present
                   THEN [S EXCEPT !.cache[i] = NoEntry]
                   ELSE S
         IN IF S1.act[i] # 0
            THEN [S1 EXCEPT !.out = 0]
            ELSE StartRequest(S1, i, loader)

\* a getAudio invocation resolves with the record of uri res (0: null); the
\* playParagraph that awaits it is woken
ReturnCall(S, c, res) ==
    [S EXCEPT !.calls[c].st = "returned", !.calls[c].req = 0, !.calls[c].res = res,
              !.mq = IF S.calls[c].op THEN Append(@, Task("P", c, 0, TRUE, res)) ELSE @]

\* getAudio after "await this.loadAudioForParagraph(...)"
AfterLoad(S, c, res) ==
    LET i == S.calls[c].idx IN
    ReturnCall(IF res # 0 THEN TriggerPreload(S, i) ELSE S, c, res)

\* getAudio from its entry to its first await (or its synchronous return)
GetAudioSync(S0, c, i, byOp) ==
    LET S == [S0 EXCEPT !.calls[c] = [st |-> "loading", idx |-> i, req |-> 0,
                                      res |-> 0, op |-> byOp,
                                      err |-> FALSE, retry |-> i \in S0.failed,
                                      text |-> S0.text],
                         !.failed = @ \ {i}]
        cached == S.cache[i]
    IN
    IF IsValid(cached)
    THEN ReturnCall(TriggerPreload(S, i), c, cached.audio_uri)
    ELSE LET S1 == IF cached.present THEN [S EXCEPT !.cache[i] = NoEntry] ELSE S
         IN IF S1.act[i] # 0
            THEN LET r == S1.act[i] IN
                 [S1 EXCEPT !.calls[c].st = "waiting",
                            !.calls[c].req = r,
                            !.reqs[r].waiters = Append(@, c)]
            ELSE LET L == LoadAudioForParagraph(S1, i, c) IN
                 IF L.out = Started
                 THEN [L EXCEPT !.calls[c].req = L.nreq - 1]
                 ELSE [L EXCEPT !.mq = Append(@, Task("G", c, i, TRUE, L.out))]

\* no timer body run in isolation
NoPass == [st |-> "none", c |-> 0, len |-> <<>>, has |-> {}, speed |-> 100,
           maxPreloadDistance |-> 0, order |-> <<>>]

InitState ==
    /\ cache = [i \in Idx |-> NoEntry]
    /\ activeRequests = [i \in Idx |-> 0]
    /\ narratorVoice = "v1"
    /\ dialogueVoice = "v1"
    /\ currentPlaybackSpeed = 100
    /\ reqs = [r \in Reqs |-> NoReq]
    /\ nextReq = 1
    /\ calls = [c \in Calls |-> NoCall]
    /\ timers = {}
    /\ seeds = {}
    /\ evicted = {}
    /\ spared = {}
    /\ failed = {}
    /\ context = 0
    /\ archive = {}
    /\ mq = <<>>
    /\ sound = 0
    /\ currentIndex = 0 - 1
    /\ isPlaying = FALSE
    /\ isLoading = FALSE
    /\ operationLock = FALSE
    /\ completionHandled = FALSE
    /\ playbackSpeed = 100
    /\ delayMs = 200
    /\ ops = [k \in Calls |-> NoOp]
    /\ tog = NoAsync
    /\ clean = NoAsync
    /\ advTimers = {}
    /\ playResult = "none"
    /\ toggleResult = "none"
    /\ rateFailures = <<>>
    /\ inputs = 0
    /\ engine = [s \in Sounds |-> NoSound]

\* no completion test run in isolation
NoStatus == [st |-> "none", isPlaying |-> FALSE, didJustFinish |-> FALSE,
             positionMillis |-> 0, durationMillis |-> 0, playbackSpeed |-> 100,
             audioCompleted |-> FALSE]

Init == InitState /\ pass = NoPass /\ status = NoStatus /\ ui = NoUi

\* A client calls getAudio(i, allParagraphs[i], allParagraphs)
GetAudio(c, i) ==
    /\ mq = <<>>
    /\ calls[c].st = "idle"
    /\ Commit(GetAudioSync(St, c, i, FALSE))

\* the self-healing step of _loadAudioInternal: with a context set,
\* offlineStorage.saveParagraphAudio(novel, chapter, i, fileUri) is called and not
\* awaited
SaveParagraphAudio(saves, ctx, i, fileUri) ==
    IF ctx # 0
    THEN saves \cup {[content |-> ctx, idx |-> i, uri |-> fileUri, st |-> "copying"]}
    ELSE saves

\* The synthesis service answers request r and the audio file is written
\* (_loadAudioInternal from the fetch to the cache.set of the loaded record);
\* the duration probe is then awaited.
RespondOk(r) ==
    /\ mq = <<>>
    /\ reqs[r].st = "fetching"
    /\ Commit([St EXCEPT !.cache[reqs[r].idx] =
                             [ReadyEntry(r, reqs[r].nv, reqs[r].dv)
                                EXCEPT !.paragraph_text = reqs[r].text],
                         !.reqs[r].st = "probing",
                         !.archive = SaveParagraphAudio(@, context, reqs[r].idx, r)])

\* the reactions of a settled load promise, in the order they were registered:
\* the loader's await first, then the getAudio waiters
Reactions(r, ok) ==
    <<Task("L", reqs[r].loader, reqs[r].idx, ok, 0)>>
    \o [n \in 1 .. Len(reqs[r].waiters) |->
          Task("W", reqs[r].waiters[n], reqs[r].idx, ok, 0)]

\* The duration probe of request r ends (with or without a duration) and
\* _loadAudioInternal returns: the load promise is fulfilled.
ProbeDone(r) ==
    /\ mq = <<>>
    /\ reqs[r].st = "probing"
    /\ Commit([St EXCEPT !.reqs[r] = DoneReq, !.mq = Reactions(r, TRUE)])

\* The synthesis service fails (network error, non-2xx status) or the file
\* cannot be written: the catch block stores the error state and rethrows.
RespondErr(r) ==
    /\ mq = <<>>
    /\ reqs[r].st = "fetching"
    /\ LET awaiting == {reqs[r].loader} \cup {reqs[r].waiters[n] : n \in 1..Len(reqs[r].waiters)}
       IN Commit([St EXCEPT !.cache[reqs[r].idx] =
                                [FailedEntry EXCEPT !.paragraph_text = reqs[r].text],
                            !.reqs[r] = DoneReq,
                            !.failed = @ \cup {reqs[r].idx},
                            !.calls = [c \in Calls |-> IF c \in awaiting
                                                       THEN [@[c] EXCEPT !.err = TRUE]
                                                       ELSE @[c]],
                            !.mq = Reactions(r, FALSE)])

\* a continuation that hands back the expected file without looking at the outcome
LoaderContinueBlind(S, c, i, ok) ==
    LET S2 == [S EXCEPT !.act[i] = 0]
    IN IF c # 0
       THEN [S2 EXCEPT !.mq = Append(@, Task("G", c, i, TRUE, S.calls[c].req))]
       ELSE S2

\* a continuation without the finally block: the marker of the index stays
LoaderContinueKeepsMarker(S, c, i, ok) ==
    LET e == S.cache[i]
        good == ok /\ e.present /\ e.audio_received /\ e.audio_uri # 0
        res == IF good THEN e.audio_uri ELSE 0
        S1 == IF ok /\ e.present /\ ~good THEN [S EXCEPT !.cache[i] = NoEntry] ELSE S
    IN IF c # 0 THEN [S1 EXCEPT !.mq = Append(@, Task("G", c, i, TRUE, res))] ELSE S1

\* loadAudioForParagraph after "await loadPromise": validation, catch, finally
LoaderContinue(S, c, i, ok) ==
    LET e == S.cache[i]
        good == ok /\ e.present /\ e.audio_received /\ e.audio_uri # 0
        res == IF good THEN e.audio_uri ELSE 0
        S1 == IF ok /\ e.present /\ ~good THEN [S EXCEPT !.cache[i] = NoEntry] ELSE S
        S2 == [S1 EXCEPT !.act[i] = 0]
    IN IF c # 0 THEN [S2 EXCEPT !.mq = Append(@, Task("G", c, i, TRUE, res))] ELSE S2

\* getAudio after "await this.activeRequests.get(paragraphIndex)"
WaiterContinue(S, c, i, ok) ==
    LET loadedData == S.cache[i]
    IN
    IF ok /\ IsValid(loadedData)
    THEN ReturnCall(TriggerPreload(S, i), c, loadedData.audio_uri)
    ELSE LET L == LoadAudioForParagraph(S, i, c) IN
         IF L.out = Started
         THEN [L EXCEPT !.calls[c].st = "loading", !.calls[c].req = L.nreq - 1,
                        !.calls[c].err = FALSE,
                        !.calls[c].retry = @ \/ ~ok]
         ELSE [L EXCEPT !.calls[c].st = "loading", !.calls[c].req = 0,
                        !.mq = Append(@, Task("G", c, i, TRUE, L.out))]

\* a look-ahead bounded only by the end of the chapter
AdaptiveDistanceAll(maxPreloadDistance, speed, remaining) == remaining

\* Math.min(Math.floor(maxPreloadDistance * Math.min(speed, 2.5)), remaining),
\* speed in hundredths
AdaptiveDistance(maxPreloadDistance, speed, remaining) ==
    Min((maxPreloadDistance * Min(speed, 250)) \div 100, remaining)

AdaptiveMaxDistance(c, speed) ==
    AdaptiveDistance(MaxPreloadDistance, speed, NumPar - c - 1)

\* a loop that leaves as soon as the total reaches the threshold, before the load
RECURSIVE LoopOrderStrict(_, _, _, _, _, _, _)
LoopOrderStrict(len, has, i, totalCharacters, preloadCount, maxDist, threshold) ==
    IF i < Len(len) /\ preloadCount < maxDist
    THEN LET total == totalCharacters + len[i + 1]
             here == IF i \notin has THEN <<i>> ELSE <<>>
         IN IF total >= threshold
            THEN <<>>
            ELSE here \o LoopOrderStrict(len, has \cup {i}, i + 1, total,
                                         preloadCount + 1, maxDist, threshold)
    ELSE <<>>

\* The for loop of triggerPreload: the indices it passes to
\* loadAudioForParagraph, in call order.  len[i + 1] is the length of paragraph
\* i; has is the set of indices in the cache map or in activeRequests.
RECURSIVE LoopOrder(_, _, _, _, _, _, _)
LoopOrder(len, has, i, totalCharacters, preloadCount, maxDist, threshold) ==
    IF i < Len(len) /\ preloadCount < maxDist
    THEN LET total == totalCharacters + len[i + 1]
             here == IF i \notin has THEN <<i>> ELSE <<>>
         IN IF total >= threshold
            THEN here
            ELSE here \o LoopOrder(len, has \cup {i}, i + 1, total,
                                   preloadCount + 1, maxDist, threshold)
    ELSE <<>>

\* a timer body that turns to the immediate-next paragraph last
PreloadOrderLate(c, len, has, speed, maxPreloadDistance, threshold) ==
    LET immediateNext == c + 1
        maxDist == AdaptiveDistance(maxPreloadDistance, speed, Len(len) - c - 1)
        rest == LoopOrder(len, has \cup {immediateNext}, c + 1, 0, 0, maxDist, threshold)
    IN IF immediateNext < Len(len) /\ immediateNext \notin has
       THEN rest \o <<immediateNext>>
       ELSE rest

\* The body of the timer set by triggerPreload, before cleanupCache: the indices
\* it passes to loadAudioForParagraph, in call order.
PreloadOrder(c, len, has, speed, maxPreloadDistance, threshold) ==
    LET immediateNext == c + 1
        first == IF immediateNext < Len(len) /\ immediateNext \notin has
                 THEN <<immediateNext>>
                 ELSE <<>>
        maxDist == AdaptiveDistance(maxPreloadDistance, speed, Len(len) - c - 1)
    IN first \o LoopOrder(len, has \cup {first[k] : k \in 1..Len(first)}, c + 1, 0, 0,
                          maxDist, threshold)

\* a timer body that gives up after its first call of loadAudioForParagraph
LoadFirst(S, order) ==
    IF order = <<>> THEN S ELSE LoadAudioForParagraph(S, Head(order), 0)

\* the calls of loadAudioForParagraph made by the timer body, applied in order
RECURSIVE LoadAll(_, _)
LoadAll(S, order) ==
    IF order = <<>>
    THEN S
    ELSE LoadAll(LoadAudioForParagraph(S, Head(order), 0), Tail(order))

\* a cleanupCache that treats durable records like the others
CleanupCacheAll(S, c) ==
    LET size == Cardinality({i \in Idx : S.cache[i].present})
        keepStart == Max(0, c - KeepRange)
        keepEnd == c + MaxPreloadDistance
        toDelete == {i \in Idx : /\ S.cache[i].present
                                 /\ (i < keepStart \/ i > keepEnd)}
    IN IF size <= MaxCacheSize
       THEN S
       ELSE [S EXCEPT !.cache = [i \in Idx |-> IF i \in toDelete THEN NoEntry ELSE @[i]],
                      !.evicted = @ \cup toDelete]

\* cleanupCache(currentIndex)
CleanupCache(S, c) ==
    LET size == Cardinality({i \in Idx : S.cache[i].present})
        keepStart == Max(0, c - KeepRange)
        keepEnd == c + MaxPreloadDistance
        outside == {i \in Idx : S.cache[i].present /\ (i < keepStart \/ i > keepEnd)}
        toDelete == {i \in outside : ~S.cache[i].isOffline}
    IN IF size <= MaxCacheSize
       THEN S
       ELSE [S EXCEPT !.cache = [i \in Idx |-> IF i \in toDelete THEN NoEntry ELSE @[i]],
                      !.evicted = @ \cup toDelete,
                      !.spared = @ \cup (outside \ toDelete)]

\* the body of the timer set by triggerPreload(currentIndex, allParagraphs, speed)
PreloadPass(S, c, speed) ==
    LET has == {i \in Idx : S.cache[i].present \/ S.act[i] # 0}
        order == PreloadOrder(c, [i \in 1..NumPar |-> ParagraphLength], has, speed,
                              MaxPreloadDistance, PreloadCharacterThreshold)
    IN CleanupCache(LoadAll(S, order), c)

\* A triggerPreload timer fires.
PrefetchPass(t) ==
    /\ mq = <<>>
    /\ t \in timers
    /\ Commit(PreloadPass([St EXCEPT !.timers = @ \ {t}, !.text = t.text], t.idx, t.speed))

\* isAudioReady(i): the value returned, and the map after the call
IsAudioReadyValue(m, i) == i \in Idx /\ IsValid(m[i])

IsAudioReadyEffect(m, i) ==
    IF i \in Idx /\ m[i].present /\ ~IsValid(m[i]) THEN [m EXCEPT ![i] = NoEntry] ELSE m

IsAudioReady(i) ==
    /\ mq = <<>>
    /\ Commit([St EXCEPT !.cache = IsAudioReadyEffect(@, i)])

\* a clearCache that removes nothing
KeptCache(m) == m

\* clearCache(): the handles it passes to FileSystem.deleteAsync
ClearCacheFiles(m) ==
    {m[i].audio_uri : i \in {j \in Idx : /\ m[j].present
                                          /\ ~m[j].isOffline
                                          /\ m[j].audio_uri # 0}}

\* clearCache(): the map after the call
ClearedCache(m) == [i \in Idx |-> NoEntry]

ClearCache ==
    /\ mq = <<>>
    /\ cache' = ClearedCache(cache)
    /\ activeRequests' = [i \in Idx |-> 0]
    /\ failed' = {}
    /\ UNCHANGED <<narratorVoice, dialogueVoice, currentPlaybackSpeed,
                   reqs, nextReq, calls, timers, seeds, evicted, spared,
                   context, archive, mq>>
    /\ UNCHANGED playerVars
    /\ UNCHANGED <<pass, status, ui>>

\* updateVoices(n, d)
UpdateVoices(n, d) ==
    /\ mq = <<>>
    /\ IF narratorVoice # n \/ dialogueVoice # d
       THEN /\ cache' = ClearedCache(cache)
            /\ activeRequests' = [i \in Idx |-> 0]
            /\ narratorVoice' = n
            /\ dialogueVoice' = d
            /\ failed' = {}
       ELSE UNCHANGED <<cache, activeRequests, narratorVoice, dialogueVoice, failed>>
    /\ UNCHANGED <<currentPlaybackSpeed, reqs, nextReq, calls, timers, seeds,
                   evicted, spared, context, archive, mq>>
    /\ UNCHANGED playerVars
    /\ UNCHANGED <<pass, status, ui>>

\* seedCache(i, text, uri) up to its await of the duration probe
SeedCache(i) ==
    /\ mq = <<>>
    /\ i \notin seeds
    /\ Cardinality(seeds) < MaxSeeds
    /\ seeds' = seeds \cup {i}
    /\ UNCHANGED <<cache, activeRequests, narratorVoice, dialogueVoice,
                   currentPlaybackSpeed, reqs, nextReq, calls, timers, evicted, spared, failed,
                   context, archive, mq>>
    /\ UNCHANGED playerVars
    /\ UNCHANGED <<pass, status, ui>>

\* seedCache after the probe: this.cache.set(paragraphIndex, audioData)
SeedDone(i) ==
    /\ mq = <<>>
    /\ i \in seeds
    /\ seeds' = seeds \ {i}
    /\ cache' = [cache EXCEPT ![i] = SeededEntry(i)]
    /\ evicted' = evicted \ {i}
    /\ UNCHANGED <<activeRequests, narratorVoice, dialogueVoice,
                   currentPlaybackSpeed, reqs, nextReq, calls, timers, spared, failed,
                   context, archive, mq>>
    /\ UNCHANGED playerVars
    /\ UNCHANGED <<pass, status, ui>>

\* The cache's setPlaybackSpeed(speed)
CacheSetPlaybackSpeed(speed) ==
    /\ mq = <<>>
    /\ Commit([St EXCEPT !.cspeed = speed])

\* ------------------------------------------------------ AudioPlayerManager
\* onStateChange(state) of AudioContext: the state masking
OnStateChange(S) ==
    IF S.isPlaying
    THEN [S EXCEPT !.ui.isTransitioning = FALSE, !.ui.isPlaying = TRUE]
    ELSE IF ~S.ui.isTransitioning
         THEN [S EXCEPT !.ui.isPlaying = FALSE]
         ELSE S

\* emitStateChange(): this.onStateChange?.(state)
EmitStateChange(S) == IF S.ui.attached THEN OnStateChange(S) ELSE S

\* the callers of playParagraph in AudioContext before the call:
\* isTransitioning.current = true, and setIsPlaying(true) in playParagraph (the
\* optimistic update), which onAutoAdvance does not do
BeginTransition(S, optimistic) ==
    IF S.ui.attached
    THEN [S EXCEPT !.ui.isTransitioning = TRUE,
                   !.ui.isPlaying = IF optimistic THEN TRUE ELSE @]
    ELSE S

\* playParagraph returns false: "if (!success) isTransitioning.current = false"
\* runs when the caller's await resumes
ReturnFalse(S) ==
    IF S.ui.attached THEN [S EXCEPT !.ui.clear = TRUE] ELSE S

\* closePlayer and loadChapter after "await cleanup()": setIsPlaying(false);
\* loadChapter, called with the content of the chapter, goes on to setContent
AfterCleanup(S) ==
    IF S.ui.attached
    THEN [S EXCEPT !.ui.isPlaying = FALSE,
                   !.ui.content = IF S.ui.loading # 0 - 1 THEN S.ui.loading ELSE @,
                   !.ui.loading = 0 - 1]
    ELSE S

FreeOps(S) == {k \in Calls : S.ops[k].pc = "idle"}

FreeSounds(S) ==
    {s \in Sounds : /\ S.engine[s].st = "none"
                    /\ S.sound # s
                    /\ S.tog.snd # s
                    /\ S.clean.snd # s
                    /\ \A k \in Calls : S.ops[k].snd # s}

Least(A) == CHOOSE x \in A : \A y \in A : x <= y

\* unloadAsync takes effect in the engine
EngineUnload(S, s) ==
    IF s # 0 THEN [S EXCEPT !.engine[s] = NoSound] ELSE S

\* playParagraph from setLoadingState(true, index) to its await of getAudio
AfterStop(S, k) ==
    LET i == S.ops[k].idx IN
    GetAudioSync(EmitStateChange([S EXCEPT !.isLoading = TRUE,
                                           !.currentIndex = i,
                                           !.ops[k].pc = "getAudio",
                                           !.ops[k].snd = 0,
                                           !.text = S.ops[k].text]), k, i, TRUE)

\* a playParagraph without the lock check
PlayUnguarded(S, i) ==
    IF FreeOps(S) = {}
    THEN [S EXCEPT !.blocked = TRUE]
    ELSE LET k == Least(FreeOps(S))
             S1 == [S EXCEPT !.lock = TRUE,
                             !.ops[k] = [pc |-> "unloading", idx |-> i,
                                         snd |-> S.sound, text |-> S.text]]
         IN IF S.sound # 0
            THEN S1
            ELSE AfterStop(EmitStateChange([S1 EXCEPT !.isPlaying = FALSE]), k)

\* playParagraph(i, ...) from its entry to its first await
PlayParagraphSync(S, i) ==
    IF S.lock
    THEN ReturnFalse([S EXCEPT !.playResult = "false"])
    ELSE IF FreeOps(S) = {}
         THEN [S EXCEPT !.blocked = TRUE]
         ELSE LET k == Least(FreeOps(S))
                  S1 == [S EXCEPT !.lock = TRUE,
                                  !.ops[k] = [pc |-> "unloading", idx |-> i,
                                              snd |-> S.sound, text |-> S.text]]
              IN IF S.sound # 0
                 THEN S1
                 ELSE AfterStop(EmitStateChange([S1 EXCEPT !.isPlaying = FALSE]), k)

\* The UI (AudioContext.playParagraph) calls playParagraph(i, content[i], content)
PlayParagraph(i) ==
    /\ mq = <<>>
    /\ inputs < MaxInputs
    /\ Commit(PlayParagraphSync(BeginTransition([St EXCEPT !.inputs = @ + 1], TRUE), i))

\* stopCurrentPlayback after "await this.sound.unloadAsync()" (resolved or
\* rejected alike), and playParagraph up to its await of getAudio
UnloadDone(k) ==
    /\ mq = <<>>
    /\ ops[k].pc = "unloading"
    /\ Commit(AfterStop(EmitStateChange([EngineUnload(St, ops[k].snd)
                                            EXCEPT !.sound = 0,
                                                   !.isPlaying = FALSE]), k))

\* playParagraph's catch and finally
PlayFailed(S, k) ==
    ReturnFalse(EmitStateChange([S EXCEPT !.ops[k] = NoOp,
                                          !.playResult = "error",
                                          !.isLoading = FALSE,
                                          !.lock = FALSE]))

\* playParagraph after "await this.cacheManager.getAudio(...)", into
\* createAndPlaySound up to its await of Audio.Sound.createAsync
PlayContinue(S0, k, res) ==
    LET S == [S0 EXCEPT !.calls[k] = NoCall] IN
    IF res = 0
    THEN PlayFailed(S, k)
    ELSE IF FreeSounds(S) = {}
         THEN [S EXCEPT !.blocked = TRUE]
         ELSE LET s == Least(FreeSounds(S)) IN
              [S EXCEPT !.completionHandled = FALSE,
                        !.engine[s] = [st |-> "loading", idx |-> S.ops[k].idx,
                                       early |-> FALSE, seen |-> FALSE, adv |-> 0,
                                       rate |-> S.playbackSpeed,
                                       shouldCorrectPitch |-> TRUE],
                        !.ops[k].pc = "creating",
                        !.ops[k].snd = s]

\* createAndPlaySound after createAsync resolved, then playParagraph's return
\* and finally
CreateDone(k) ==
    /\ mq = <<>>
    /\ ops[k].pc = "creating"
    /\ Commit(EmitStateChange([St EXCEPT !.engine[ops[k].snd].st = "playing",
                                         !.ui.played = IF ui.attached
                                                       THEN Append(@, ops[k].idx)
                                                       ELSE @,
                                         !.sound = ops[k].snd,
                                         !.currentIndex = ops[k].idx,
                                         !.isPlaying = TRUE,
                                         !.ops[k] = NoOp,
                                         !.playResult = "true",
                                         !.isLoading = FALSE,
                                         !.lock = FALSE]))

\* createAsync rejects (the engine cannot open the stream)
CreateFail(k) ==
    /\ mq = <<>>
    /\ ops[k].pc = "creating"
    /\ Commit(PlayFailed(EngineUnload(St, ops[k].snd), k))

RunTask(S, t) ==
    CASE t.k = "L" -> LoaderContinue(S, t.id, t.idx, t.ok)
      [] t.k = "W" -> WaiterContinue([S EXCEPT !.text = S.calls[t.id].text],
                                     t.id, t.idx, t.ok)
      [] t.k = "G" -> AfterLoad([S EXCEPT !.text = S.calls[t.id].text], t.id, t.res)
      [] t.k = "P" -> PlayContinue(S, t.id, t.res)

\* The event loop runs the next microtask.
MicroStep ==
    /\ mq # <<>>
    /\ Commit(RunTask([St EXCEPT !.mq = Tail(mq)], Head(mq)))

\* togglePlayback() up to its await of pauseAsync / playAsync
TogglePlayback ==
    /\ mq = <<>>
    /\ tog.pc = "idle"
    /\ inputs < MaxInputs + MaxToggles
    /\ Commit(IF sound = 0 \/ operationLock
              THEN [St EXCEPT !.inputs = @ + 1, !.toggleResult = "false"]
              ELSE [St EXCEPT !.inputs = @ + 1,
                              !.lock = TRUE,
                              !.tog = [pc |-> IF isPlaying THEN "pause" ELSE "play",
                                       snd |-> sound]])

\* togglePlayback after the await: the engine has paused or resumed the sound,
\* or the call failed because the sound is no longer loaded
ToggleDone ==
    /\ mq = <<>>
    /\ tog.pc # "idle"
    /\ LET s == tog.snd
           S == [St EXCEPT !.tog = NoAsync, !.lock = FALSE]
       IN Commit(IF engine[s].st = "none"
                 THEN [S EXCEPT !.toggleResult = "error"]
                 ELSE IF tog.pc = "pause"
                      THEN EmitStateChange(
                             [S EXCEPT !.isPlaying = FALSE,
                                       !.toggleResult = "true",
                                       !.engine[s].st = IF @ = "playing" THEN "paused" ELSE @])
                      ELSE EmitStateChange(
                             [S EXCEPT !.isPlaying = TRUE,
                                       !.toggleResult = "true",
                                       !.engine[s].st = IF @ = "paused" THEN "playing" ELSE @]))

\* a cleanup that leaves the loading flag alone
ResetStateNoLoading(S) ==
    [S EXCEPT !.currentIndex = 0 - 1, !.isPlaying = FALSE, !.lock = FALSE]

\* the assignments of cleanup() after the sound is released
ResetState(S) ==
    [S EXCEPT !.currentIndex = 0 - 1, !.isPlaying = FALSE,
              !.isLoading = FALSE, !.lock = FALSE]

\* cleanup() up to its await of unloadAsync, or to its end when no sound is loaded
Cleanup ==
    /\ mq = <<>>
    /\ clean.pc = "idle"
    /\ inputs < MaxInputs
    /\ Commit(IF sound # 0
              THEN [St EXCEPT !.inputs = @ + 1,
                              !.clean = [pc |-> "unloading", snd |-> sound]]
              ELSE AfterCleanup(EmitStateChange(ResetState([St EXCEPT !.inputs = @ + 1]))))

\* cleanup() after "await this.sound.unloadAsync()"
CleanupDone ==
    /\ mq = <<>>
    /\ clean.pc = "unloading"
    /\ Commit(AfterCleanup(EmitStateChange(
                 ResetState([EngineUnload(St, clean.snd) EXCEPT !.sound = 0,
                                                                !.clean = NoAsync]))))

\* loadChapter(novel, chapter, initialContent) of a chapter other than the one
\* loaded, up to its await of cleanup() (or to its end when no sound is loaded)
LoadChapter(n) ==
    /\ mq = <<>>
    /\ ui.attached
    /\ ui.loading = 0 - 1
    /\ ui.content # n
    /\ clean.pc = "idle"
    /\ inputs < MaxInputs
    /\ LET S == [St EXCEPT !.inputs = @ + 1, !.ui.loading = n]
       IN Commit(IF sound # 0
                 THEN [S EXCEPT !.clean = [pc |-> "unloading", snd |-> sound]]
                 ELSE AfterCleanup(EmitStateChange(ResetState(S))))

\* no clamping
Unclamped(speed) == speed

\* Math.max(0.25, Math.min(4.0, speed))
Clamp(speed) == Max(25, Min(400, speed))

\* a setPlaybackSpeed that gives the rate to the loaded sound whether or not the
\* lock is held
SetRateUnguarded(S, clampedSpeed) ==
    IF S.sound # 0
    THEN [S EXCEPT !.engine[S.sound].rate = clampedSpeed,
                   !.engine[S.sound].shouldCorrectPitch = TRUE]
    ELSE S

\* setPlaybackSpeed from "if (this.sound && !this.operationLock)" on: the engine
\* takes the rate given to setRateAsync (when the first call is rejected the
\* fallback repeats it with the same arguments); otherwise nothing is applied
SetRate(S, clampedSpeed) ==
    IF S.sound # 0 /\ ~S.lock /\ S.engine[S.sound].st # "none"
    THEN EmitStateChange([S EXCEPT !.engine[S.sound].rate = clampedSpeed,
                                   !.engine[S.sound].shouldCorrectPitch = TRUE])
    ELSE S

\* setPlaybackSpeed(speed): the rate, updateAutoAdvanceForSpeed, the cache's
\* rate, and the rate of the loaded sound
SetPlaybackSpeed(speed) ==
    /\ mq = <<>>
    /\ inputs < MaxInputs
    /\ Commit(SetRate([St EXCEPT !.inputs = @ + 1,
                                 !.playbackSpeed = Clamp(speed),
                                 !.delayMs = Max(0, 200 - (Clamp(speed) - 100)),
                                 !.cspeed = Clamp(speed),
                                 !.rateFailures = <<>>], Clamp(speed)))

\* a fallback that repeats the call with pitch correction off
SetRateRejectedNoPitch(S, clampedSpeed, retryRejected) ==
    IF retryRejected
    THEN [S EXCEPT !.rateFailures = <<TRUE, FALSE>>]
    ELSE [S EXCEPT !.rateFailures = <<TRUE>>,
                   !.engine[S.sound].rate = clampedSpeed,
                   !.engine[S.sound].shouldCorrectPitch = FALSE]

\* setPlaybackSpeed from "if (this.sound && !this.operationLock)" on, when the
\* engine rejects setRateAsync(clampedSpeed, true): the catch block calls
\* setRateAsync(clampedSpeed, true) once more, and a second rejection is logged
SetRateRejected(S, clampedSpeed, retryRejected) ==
    IF retryRejected
    THEN [S EXCEPT !.rateFailures = <<TRUE, TRUE>>]
    ELSE [S EXCEPT !.rateFailures = <<TRUE>>,
                   !.engine[S.sound].rate = clampedSpeed,
                   !.engine[S.sound].shouldCorrectPitch = TRUE]

\* setPlaybackSpeed(speed) with a sound loaded and the lock free, the engine
\* rejecting the first setRateAsync
SetPlaybackSpeedRejected(speed, retryRejected) ==
    /\ mq = <<>>
    /\ inputs < MaxInputs
    /\ sound # 0
    /\ ~operationLock
    /\ Commit(SetRateRejected([St EXCEPT !.inputs = @ + 1,
                                         !.playbackSpeed = Clamp(speed),
                                         !.delayMs = Max(0, 200 - (Clamp(speed) - 100)),
                                         !.cspeed = Clamp(speed)],
                              Clamp(speed), retryRejected))

\* onAutoAdvance(fromIndex, toIndex) of AudioContext
OnAutoAdvance(S, toIndex) ==
    IF toIndex < NumPar
    THEN PlayParagraphSync(BeginTransition(S, FALSE), toIndex)
    ELSE S

\* handleAudioCompletion(paragraphIndex), called by the status callback of sound s
HandleAudioCompletion(S, s) ==
    IF S.completionHandled
    THEN S
    ELSE LET nextIndex == S.engine[s].idx + 1
             isNextReady == IsAudioReadyValue(S.cache, nextIndex)
             speedAdaptedDelay == Max(0, S.delayMs - (S.playbackSpeed - 100))
             S1 == [S EXCEPT !.completionHandled = TRUE,
                             !.isPlaying = FALSE,
                             !.cache = IsAudioReadyEffect(@, nextIndex),
                             !.engine[s].adv = @ + 1]
         IN IF isNextReady \/ speedAdaptedDelay <= 0
            THEN OnAutoAdvance(S1, nextIndex)
            ELSE [S1 EXCEPT !.advTimers = @ \cup {nextIndex}]

\* The statuses the engine can report for a sound in state st: whether the
\* position is past the early-preload point, whether it is within the
\* completion threshold of the end, and didJustFinish.
Statuses(st) ==
    IF st = "finished"
    THEN {[past |-> TRUE, near |-> TRUE, did |-> d] : d \in BOOLEAN}
    ELSE {[past |-> FALSE, near |-> FALSE, did |-> FALSE],
          [past |-> TRUE, near |-> FALSE, did |-> FALSE],
          [past |-> TRUE, near |-> TRUE, did |-> FALSE]}

\* a completion test that does not look at the isPlaying flag
IsAudioCompleteAnyFlag(statusIsPlaying, near) == near

\* isAudioComplete(status)
IsAudioComplete(statusIsPlaying, near) == ~statusIsPlaying /\ near

\* The status callback created for sound s runs with status u.
StatusCallback(s, u) ==
    /\ mq = <<>>
    /\ engine[s].st \notin {"none", "loading"}
    /\ u \in Statuses(engine[s].st)
    /\ engine[s].adv < 2
    /\ LET statusIsPlaying == engine[s].st = "playing"
           early == ~engine[s].early /\ u.past
           audioCompleted == u.did \/ IsAudioComplete(statusIsPlaying, u.near)
           S1 == [St EXCEPT !.isPlaying = statusIsPlaying,
                            !.engine[s].early = @ \/ early,
                            !.cache = IF early
                                      THEN IsAudioReadyEffect(@, engine[s].idx + 1)
                                      ELSE @,
                            !.engine[s].seen = @ \/ audioCompleted]
       IN Commit(EmitStateChange(IF audioCompleted
                                 THEN HandleAudioCompletion(S1, s)
                                 ELSE S1))

\* The engine plays sound s to its end.
EngineFinish(s) ==
    /\ mq = <<>>
    /\ engine[s].st = "playing"
    /\ Commit([St EXCEPT !.engine[s].st = "finished"])

\* The timer set by handleAudioCompletion fires.
AdvanceTimer(toIndex) ==
    /\ mq = <<>>
    /\ toIndex \in advTimers
    /\ Commit(OnAutoAdvance([St EXCEPT !.advTimers = @ \ {toIndex}], toIndex))

\* ------------------------------------------------------------ specifications
\* The cache under direct getAudio calls, voice changes and cache clearing.
Next ==
    \/ \E c \in Calls, i \in Idx : GetAudio(c, i)
    \/ \E r \in Reqs : RespondOk(r)
    \/ \E r \in Reqs : ProbeDone(r)
    \/ \E r \in Reqs : RespondErr(r)
    \/ MicroStep
    \/ \E t \in timers : PrefetchPass(t)
    \/ \E i \in Idx : IsAudioReady(i)
    \/ ClearCache
    \/ \E n \in Voices, d \in Voices : UpdateVoices(n, d)

Spec == Init /\ [][Next]_vars

\* The cache with records seeded from the durable archive, under voice changes
\* and cache clearing; SpecPolicy runs the prefetch passes over seeded records.
NextDurable ==
    \/ \E c \in Calls, i \in Idx : GetAudio(c, i)
    \/ \E r \in Reqs : RespondOk(r)
    \/ \E r \in Reqs : ProbeDone(r)
    \/ \E r \in Reqs : RespondErr(r)
    \/ MicroStep
    \/ \E i \in Idx : IsAudioReady(i)
    \/ ClearCache
    \/ \E n \in Voices : UpdateVoices(n, "v1")
    \/ \E i \in Idx : SeedCache(i)
    \/ \E i \in Idx : SeedDone(i)

SpecDurable == Init /\ [][NextDurable]_vars

\* The cache's prefetch and eviction policy: getAudio calls, seeded records
\* and rate changes, without voice changes or cache clearing.
NextPolicy ==
    \/ \E c \in Calls, i \in Idx : GetAudio(c, i)
    \/ \E r \in Reqs : RespondOk(r)
    \/ \E r \in Reqs : ProbeDone(r)
    \/ \E r \in Reqs : RespondErr(r)
    \/ MicroStep
    \/ \E t \in timers : PrefetchPass(t)
    \/ \E i \in Idx : IsAudioReady(i)
    \/ \E i \in Idx : SeedCache(i)
    \/ \E i \in Idx : SeedDone(i)
    \/ \E sp \in Speeds : CacheSetPlaybackSpeed(sp)

SpecPolicy == Init /\ [][NextPolicy]_vars

\* ---- the timer body of triggerPreload as a function of its arguments

\* the arguments drawn: the paragraph the pass starts from, the lengths of the
\* chapter's paragraphs, the indices already in the cache map or in
\* activeRequests, the speed captured, and config.maxPreloadDistance
PassInputs ==
    {[st |-> "scheduled", c |-> c, len |-> len, has |-> has, speed |-> speed,
      maxPreloadDistance |-> d, order |-> <<>>] :
        c \in 0..(NumParagraphs - 1),
        len \in [1..NumParagraphs -> {ParagraphLength, 3 * ParagraphLength}],
        has \in SUBSET (1..(NumParagraphs - 1)),
        speed \in {100, 200, 300},
        d \in {1, 2, DefaultMaxPreloadDistance}}

InitPrefetch == InitState /\ pass \in PassInputs /\ status = NoStatus /\ ui = NoUi

\* the timer fires: the loads of the body, in the order it issues them
RunPass ==
    /\ pass.st = "scheduled"
    /\ pass' = [pass EXCEPT !.st = "done",
                            !.order = PreloadOrder(pass.c, pass.len, pass.has, pass.speed,
                                                   pass.maxPreloadDistance,
                                                   PreloadCharacterThreshold)]
    /\ UNCHANGED <<cacheVars, playerVars, status, ui>>

NextPrefetch == RunPass

SpecPrefetch == InitPrefetch /\ [][NextPrefetch]_vars

\* Playback over a cache seeded from the durable archive, with the prefetch passes
\* and their fetches running in the background; cleanup, toggle and the status
\* callbacks are left out.
NextBackground ==
    \/ \E i \in Idx : PlayParagraph(i)
    \/ \E k \in Calls : UnloadDone(k)
    \/ \E k \in Calls : CreateDone(k)
    \/ \E sp \in Speeds : SetPlaybackSpeed(sp)
    \/ \E i \in Idx : SeedCache(i)
    \/ \E i \in Idx : SeedDone(i)
    \/ \E r \in Reqs : RespondOk(r)
    \/ \E r \in Reqs : ProbeDone(r)
    \/ \E r \in Reqs : RespondErr(r)
    \/ MicroStep
    \/ \E t \in timers : PrefetchPass(t)

SpecBackground == Init /\ [][NextBackground]_vars

\* ---- self-healing into the durable archive
ContentIds == {1, 2}

\* setContext(novelName, chapterNumber)
SetContext(n) ==
    /\ mq = <<>>
    /\ context # n
    /\ Commit([St EXCEPT !.context = n])

\* a save whose failure reaches the cache: the record of the index is marked failed
SaveDoneRaising(k, ok) ==
    /\ mq = <<>>
    /\ k \in archive
    /\ k.st = "copying"
    /\ Commit([St EXCEPT !.archive = (@ \ {k})
                             \cup {[k EXCEPT !.st = IF ok THEN "saved" ELSE "failed"]},
                         !.cache[k.idx] = IF ok THEN @ ELSE FailedEntry])

\* saveParagraphAudio ends: the file is copied, or the copy fails and null is
\* returned
SaveDone(k, ok) ==
    /\ mq = <<>>
    /\ k \in archive
    /\ k.st = "copying"
    /\ Commit([St EXCEPT !.archive = (@ \ {k})
                             \cup {[k EXCEPT !.st = IF ok THEN "saved" ELSE "failed"]}])

\* The cache under getAudio calls and prefetch passes while the context changes.
NextArchive ==
    \/ \E n \in ContentIds : SetContext(n)
    \/ \E c \in Calls, i \in Idx : GetAudio(c, i)
    \/ \E r \in Reqs : RespondOk(r)
    \/ \E r \in Reqs : ProbeDone(r)
    \/ \E r \in Reqs : RespondErr(r)
    \/ MicroStep
    \/ \E t \in timers : PrefetchPass(t)
    \/ \E k \in archive, ok \in BOOLEAN : SaveDone(k, ok)

SpecArchive == Init /\ [][NextArchive]_vars

\* ---- the completion test of the status callback as a function of the status

BaseThreshold == 30           \* ms
ThresholdSpeedCap == 250      \* hundredths: Math.min(this.playbackSpeed, 2.5)
ThresholdPerSpeed == 50       \* ms for each 1.0 of rate above 1.0

\* twice the adaptiveThreshold of isAudioComplete, in ms, at a rate in hundredths:
\* 2 * (30 + (min(speed, 2.5) - 1) * 50)
AdaptiveThreshold2(speed) ==
    2 * BaseThreshold + ((Min(speed, ThresholdSpeedCap) - 100) * ThresholdPerSpeed) \div 50

\* position and duration are reported (non-zero) and
\* positionMillis >= durationMillis - adaptiveThreshold
NearEnd(positionMillis, durationMillis, speed) ==
    /\ positionMillis # 0
    /\ durationMillis # 0
    /\ 2 * positionMillis >= 2 * durationMillis - AdaptiveThreshold2(speed)

\* audioCompleted of the status callback
AudioCompleted(u) ==
    u.didJustFinish
    \/ IsAudioComplete(u.isPlaying,
                       NearEnd(u.positionMillis, u.durationMillis, u.playbackSpeed))

\* the statuses drawn: streams of 0 ms, 200 ms and 1000 ms, positions up to the
\* duration on both sides of the threshold of every rate drawn
StatusDurations == {0, 200, 1000}
StatusPositions == {0, 94, 95, 119, 120, 169, 170, 194, 195, 200,
                    894, 895, 919, 920, 969, 970, 994, 995, 1000}
StatusSpeeds == {25, 40, 50, 100, 200, 250, 300}

StatusInputs ==
    {u \in [st : {"pending"}, isPlaying : BOOLEAN, didJustFinish : BOOLEAN,
            positionMillis : StatusPositions, durationMillis : StatusDurations,
            playbackSpeed : StatusSpeeds, audioCompleted : {FALSE}] :
        u.positionMillis <= u.durationMillis}

InitCompletion == InitState /\ pass = NoPass /\ status \in StatusInputs /\ ui = NoUi

\* the callback runs its completion test on the status
RunStatus ==
    /\ status.st = "pending"
    /\ status' = [status EXCEPT !.st = "handled", !.audioCompleted = AudioCompleted(status)]
    /\ UNCHANGED <<cacheVars, playerVars, pass, ui>>

NextCompletion == RunStatus

SpecCompletion == InitCompletion /\ [][NextCompletion]_vars

\* The coordinator on top of the cache and the playback engine. The prefetch
\* timers that getAudio schedules stay pending here; SpecBackground fires them
\* next to playback.
NextPlayer ==
    \/ \E i \in Idx : PlayParagraph(i)
    \/ \E k \in Calls : UnloadDone(k)
    \/ \E k \in Calls : CreateDone(k)
    \/ \E k \in Calls : CreateFail(k)
    \/ TogglePlayback
    \/ ToggleDone
    \/ Cleanup
    \/ CleanupDone
    \/ \E sp \in Speeds : SetPlaybackSpeed(sp)
    \/ \E s \in Sounds : \E u \in Statuses(engine[s].st) : StatusCallback(s, u)
    \/ \E s \in Sounds : EngineFinish(s)
    \/ \E i \in advTimers : AdvanceTimer(i)
    \/ \E r \in Reqs : RespondOk(r)
    \/ \E r \in Reqs : ProbeDone(r)
    \/ \E r \in Reqs : RespondErr(r)
    \/ MicroStep

SpecPlayer == Init /\ [][NextPlayer]_vars

\* The coordinator with the callbacks of AudioContext set, under playParagraph
\* calls, status callbacks and auto-advance.
InitPresentation ==
    InitState /\ pass = NoPass /\ status = NoStatus /\ ui = [NoUi EXCEPT !.attached = TRUE]

NextPresentation ==
    \/ \E i \in Idx : PlayParagraph(i)
    \/ \E k \in Calls : UnloadDone(k)
    \/ \E k \in Calls : CreateDone(k)
    \/ \E k \in Calls : CreateFail(k)
    \/ \E s \in Sounds : \E u \in Statuses(engine[s].st) : StatusCallback(s, u)
    \/ \E s \in Sounds : EngineFinish(s)
    \/ \E i \in advTimers : AdvanceTimer(i)
    \/ \E r \in Reqs : RespondOk(r)
    \/ \E r \in Reqs : ProbeDone(r)
    \/ \E r \in Reqs : RespondErr(r)
    \/ MicroStep

SpecPresentation == InitPresentation /\ [][NextPresentation]_vars

\* Unattended playback of a chapter whose first paragraphs are in the durable
\* archive: they are seeded, the UI calls playParagraph(0) once, and from then on
\* only the synthesis service, the engine and the timers act; every synthesis
\* request and every createAsync succeeds.
Archived == {0, 1}

SeedArchived(i) == i \in Archived /\ ~cache[i].present /\ SeedCache(i)

StartPlayback ==
    /\ \A i \in Archived : IsAudioReadyValue(cache, i)
    /\ inputs = 0
    /\ PlayParagraph(0)

NextAdvance ==
    \/ \E i \in Idx : SeedArchived(i)
    \/ \E i \in Idx : SeedDone(i)
    \/ StartPlayback
    \/ \E k \in Calls : UnloadDone(k)
    \/ \E k \in Calls : CreateDone(k)
    \/ \E s \in Sounds : \E u \in Statuses(engine[s].st) : StatusCallback(s, u)
    \/ \E s \in Sounds : EngineFinish(s)
    \/ \E i \in advTimers : AdvanceTimer(i)
    \/ \E r \in Reqs : RespondOk(r)
    \/ \E r \in Reqs : ProbeDone(r)
    \/ MicroStep
    \/ \E t \in timers : PrefetchPass(t)

\* Something that can happen eventually does: an awaited answer arrives, a timer
\* fires, the engine plays the sound to its end and reports it.  No step of
\* NextAdvance can be undone by later steps, so this is all the scheduling the
\* properties need.
SpecAdvance == InitPresentation /\ [][NextAdvance]_vars /\ WF_vars(NextAdvance)

\* The coordinator under play, toggle and speed changes with arguments in and
\* out of range; cleanup and the status callbacks are left out.
NextRate ==
    \/ \E i \in Idx : PlayParagraph(i)
    \/ \E k \in Calls : UnloadDone(k)
    \/ \E k \in Calls : CreateDone(k)
    \/ TogglePlayback
    \/ ToggleDone
    \/ \E sp \in SpeedArgs : SetPlaybackSpeed(sp)
    \/ \E sp \in SpeedArgs, b \in BOOLEAN : SetPlaybackSpeedRejected(sp, b)
    \/ \E r \in Reqs : RespondOk(r)
    \/ \E r \in Reqs : ProbeDone(r)
    \/ MicroStep
    \/ \E t \in timers : PrefetchPass(t)

SpecRate == Init /\ [][NextRate]_vars

\* -------------------------------------------------------------- properties
InFlight(i) == {r \in Reqs : reqs[r].st = "fetching" /\ reqs[r].idx = i}

Issued(r) == reqs[r].st = "unused" /\ reqs'[r].st = "fetching"

\* C1: a getAudio(i) call issued while another getAudio(i) call is awaiting a
\* synthesis request for i that the service has not answered yet sends no
\* second synthesis request for i.
C1_OneRequestForConcurrentCalls ==
    [][\A c \in Calls, i \in Idx :
          (/\ GetAudio(c, i)
           /\ \E c2 \in Calls : /\ calls[c2].st \in {"loading", "waiting"}
                                /\ calls[c2].idx = i
                                /\ calls[c2].req # 0
                                /\ reqs[calls[c2].req].st = "fetching")
          => \A r \in Reqs : ~Issued(r)]_vars

\* C2: in every reachable state at most one synthesis request per paragraph
\* index is in flight.
C2_SingleFlight == \A i \in Idx : Cardinality(InFlight(i)) <= 1

\* C7: a step that changes the narrator or the dialogue voice leaves isReady(i)
\* false for every index that held a Ready non-durable record before it, and
\* every synthesis request is issued with the voices current at that moment.
C7_VoiceChangeInvalidates ==
    [][/\ (narratorVoice' # narratorVoice \/ dialogueVoice' # dialogueVoice)
          => \A i \in Idx : (IsValid(cache[i]) /\ ~cache[i].isOffline)
                               => ~IsAudioReadyValue(cache', i)
       /\ \A r \in Reqs : Issued(r) => /\ reqs'[r].nv = narratorVoice'
                                       /\ reqs'[r].dv = dialogueVoice']_vars

\* a getAudio call returned a Ready record for an index that the voice change
\* has cleared, and a request issued after the change carries the new voices
C7_Witness ==
    /\ narratorVoice = "v2"
    /\ \E c \in Calls : /\ calls[c].st = "returned"
                        /\ calls[c].res # 0
                        /\ ~IsAudioReadyValue(cache, calls[c].idx)
    /\ \E r \in Reqs : reqs[r].st = "fetching" /\ reqs[r].nv = "v2"

\* C8: the cache never holds as Ready a non-durable record whose audio was
\* synthesized with voices other than the current ones.
C8_NoStaleReady ==
    \A i \in Idx : (IsValid(cache[i]) /\ ~cache[i].isOffline)
                      => /\ cache[i].nv = narratorVoice
                         /\ cache[i].dv = dialogueVoice

\* C9: a clearCache or updateVoices step keeps every record installed by
\* seedCache in the index, Ready and durable.
C9_DurableSurvivesClear ==
    [][(ClearCache \/ \E n \in Voices, d \in Voices : UpdateVoices(n, d))
          => \A i \in Idx : cache[i].isOffline
                               => /\ IsAudioReadyValue(cache', i)
                                  /\ cache'[i].isOffline]_vars

\* C10: when seedCache(i) completes, isReady(i) is true and the record is the
\* durable one; a getAudio(i) call that follows returns that record at once
\* and no step taken while the record is in the index issues a synthesis
\* request for i.
C10_SeedThenGet ==
    [][\A i \in Idx :
          /\ (i \in seeds /\ i \notin seeds')
                => (IsAudioReadyValue(cache', i) /\ cache'[i] = SeededEntry(i))
          /\ (cache[i].isOffline /\ IsValid(cache[i]))
                => /\ \A r \in Reqs : Issued(r) => reqs'[r].idx # i
                   /\ \A c \in Calls :
                         (calls[c].st = "idle" /\ calls'[c].st # "idle"
                             /\ calls'[c].idx = i)
                         => /\ calls'[c].st = "returned"
                            /\ calls'[c].res = DurableUri(i)]_vars

\* a getAudio call returned the seeded record and no request was ever issued
C10_Witness ==
    /\ nextReq = 1
    /\ \E c \in Calls : /\ calls[c].st = "returned"
                        /\ calls[c].res = DurableUri(calls[c].idx)
                        /\ IsAudioReadyValue(cache, calls[c].idx)

Loaded == {s \in Sounds : engine[s].st \notin {"none", "loading"}}

OpsInFlight == {k \in Calls : ops[k].pc # "idle"}

\* C3: in every reachable state at most one sound is loaded in the playback
\* engine.
C3_OneLoadedSound == Cardinality(Loaded) <= 1

\* C4: whenever a playParagraph or a togglePlayback is past its lock check and
\* has not returned, the operation lock is held, and at most one such
\* operation is in flight.
C4_LockHeldInFlight ==
    /\ (OpsInFlight # {} \/ tog.pc # "idle") => operationLock
    /\ Cardinality(OpsInFlight) + (IF tog.pc # "idle" THEN 1 ELSE 0) <= 1

\* C5: a playParagraph call made while the operation lock is held returns
\* false in the same step without an error event; it starts no invocation,
\* unloads nothing, calls neither getAudio nor the cache, and leaves
\* currentIndex, isPlaying, isLoading and the lock as they were.
C5_RejectedWhileLocked ==
    [][(operationLock /\ \E i \in Idx : PlayParagraph(i))
          => /\ playResult' = "false"
             /\ UNCHANGED <<cacheVars, sound, currentIndex, isPlaying, isLoading,
                            operationLock, completionHandled, playbackSpeed,
                            delayMs, ops, tog, clean, advTimers, engine>>]_vars

\* a call was rejected while a playParagraph holding the lock awaits getAudio
C5_Witness ==
    /\ playResult = "false"
    /\ operationLock
    /\ \E k \in Calls : ops[k].pc = "getAudio"

\* C6: for every loaded stream the auto-advance trigger has fired exactly once
\* if a status callback has found the stream complete, and not at all
\* otherwise.
C6_OneTriggerPerStream ==
    \A s \in Loaded : engine[s].adv = IF engine[s].seen THEN 1 ELSE 0

Present(m) == {i \in Idx : m[i].present}

OutsideWindow(i, c) == i < c - KeepRange \/ i > c + MaxPreloadDistance

\* C11: a prefetch pass for index c that leaves more than maxCacheSize records
\* in the index leaves no non-durable record outside [c - 3, c + maxDistance],
\* and an index removed by eviction holds no record until a new fetch for it
\* is issued.
C11_EvictedStaysAbsent ==
    [][/\ \A t \in timers :
             (PrefetchPass(t) /\ Cardinality(Present(cache')) > MaxCacheSize)
             => \A i \in Idx : (OutsideWindow(i, t.idx) /\ cache'[i].present)
                                  => cache'[i].isOffline
       /\ \A i \in evicted' : ~cache'[i].present]_vars

\* C12: a prefetch pass, whatever the size of the cache, leaves every durable
\* record of the index as it was.
C12_DurableNeverEvicted ==
    [][\A t \in timers :
          PrefetchPass(t) => \A i \in Idx : (cache[i].present /\ cache[i].isOffline)
                                               => cache'[i] = cache[i]]_vars

\* an over-size eviction pass met a durable record outside its window, and the
\* record is still in the index
C12_Witness ==
    \E i \in spared : cache[i].present /\ cache[i].isOffline

\* ---- the timer body on given arguments

Requested == {pass.order[k] : k \in 1..Len(pass.order)}

\* the immediate-next paragraph exists and is neither cached nor in flight
NextNeeded == pass.c + 1 < Len(pass.len) /\ pass.c + 1 \notin pass.has

\* C13: in a prefetch pass started for index c whose immediate-next index c+1
\* exists and is neither cached nor in flight, every request for an index greater
\* than c+1 is preceded by the request for c+1.
C13_ImmediateNextFirst ==
    (pass.st = "done" /\ NextNeeded)
    => \A k \in 1..Len(pass.order) :
          pass.order[k] > pass.c + 1
          => \E j \in 1..(k - 1) : pass.order[j] = pass.c + 1

\* a pass that had to request c+1 and requested a later index as well
C13_Witness ==
    /\ pass.st = "done"
    /\ NextNeeded
    /\ \E k \in 1..Len(pass.order) : pass.order[k] > pass.c + 1

\* the characters of paragraphs a..b
RECURSIVE RangeSum(_, _, _)
RangeSum(len, a, b) == IF a > b THEN 0 ELSE len[b + 1] + RangeSum(len, a, b - 1)

\* every paragraph 400 long, threshold 1000, nothing after index 0 cached or in
\* flight, the configuration and the speed of the defaults
BudgetExample ==
    /\ pass.st = "done"
    /\ pass.c = 0
    /\ \A k \in 1..Len(pass.len) : pass.len[k] = ParagraphLength
    /\ pass.has = {}
    /\ pass.speed = 100
    /\ pass.maxPreloadDistance = DefaultMaxPreloadDistance

\* the loop looks at index k: the paragraphs before it, from c+1 on, are within
\* the look-ahead distance and hold fewer characters than the threshold
Visited(k) ==
    /\ pass.c < k
    /\ k < Len(pass.len)
    /\ k - pass.c <= AdaptiveDistance(pass.maxPreloadDistance, pass.speed,
                                      Len(pass.len) - pass.c - 1)
    /\ RangeSum(pass.len, pass.c + 1, k - 1) < PreloadCharacterThreshold

\* C14 (amended): a prefetch pass from index c accumulates the character counts of
\* paragraphs c+1, c+2, ... and stops after the paragraph at which the running
\* total reaches the threshold, which it still requests; with every paragraph 400
\* long and a threshold of 1000 a pass from index 0 issues fetches for indices 1, 2
\* and 3 but not for index 4.
C14_BudgetIncludesCrossing ==
    /\ pass.st = "done"
       => /\ \A k \in Requested : k = pass.c + 1 \/ Visited(k)
          /\ \A k \in 0..(Len(pass.len) - 1) : (Visited(k) /\ k \notin pass.has)
                                                  => k \in Requested
    /\ BudgetExample => pass.order = <<1, 2, 3>>

C14_Witness ==
    BudgetExample /\ 3 \in Requested /\ 4 \notin Requested /\ Len(pass.len) > 4

\* C14: a prefetch pass accumulates the character counts of the paragraphs after
\* its index and stops once the total reaches the threshold; with every paragraph
\* 400 long and a threshold of 1000 a pass from index 0 issues fetches for indices
\* 1 and 2 but not for index 3, even when index 3 exists.
C14_BudgetStopsBeforeCrossing ==
    /\ pass.st = "done"
       => \A k \in Requested : k = pass.c + 1 \/ Visited(k)
    /\ BudgetExample => (1 \in Requested /\ 2 \in Requested /\ 3 \notin Requested)

\* ---- the look-ahead distance

\* the requests a step issues
NewRequests == {r \in Reqs : nextReq <= r /\ r < nextReq'}

\* min(floor(baseDistance * min(rate, 2.5)), paragraphs after c), rate in hundredths
ClaimedDistance(baseDistance, rate, c) ==
    Min((baseDistance * Min(rate, 250)) \div 100, NumPar - c - 1)

\* with baseDistance 8 the distance is 16 at rate 2.0 and 8 at rate 1.0 when that
\* many paragraphs remain
DistanceExamples ==
    /\ AdaptiveDistance(DefaultMaxPreloadDistance, 200, 2 * DefaultMaxPreloadDistance) = 16
    /\ AdaptiveDistance(DefaultMaxPreloadDistance, 100, 2 * DefaultMaxPreloadDistance) = 8

Returns(c) == calls[c].st # "returned" /\ calls'[c].st = "returned"

\* C16: a record returned by getAudio(index, ...) is the record the index holds,
\* Ready and with a non-empty handle; when the request the invocation last
\* awaited ended in a service error, getAudio returns null and the index holds no
\* Ready record.
C16_ReturnsReadyOrFailure ==
    [][\A c \in Calls :
          Returns(c)
          => /\ calls'[c].res # 0
                => /\ IsValid(cache'[calls'[c].idx])
                   /\ cache'[calls'[c].idx].audio_uri = calls'[c].res
             /\ calls'[c].err
                => /\ calls'[c].res = 0
                   /\ ~IsValid(cache'[calls'[c].idx])]_vars

\* one invocation has returned a record it fetched, another has returned null
\* after the service failed it
C16_Witness ==
    \E c, d \in Calls :
        /\ calls[c].st = "returned" /\ calls[c].res \in Reqs
        /\ calls[d].st = "returned" /\ calls[d].res = 0 /\ calls[d].err

\* ---- failures of playParagraph

\* playParagraph invocation k, which had taken the lock, returns in this step
\* through its catch block
Fails(k) == ops[k].pc # "idle" /\ ops'[k].pc = "idle" /\ playResult' = "error"

\* C17: when a playParagraph that took the lock fails (getAudio returned null or
\* the engine could not load the stream), it reports the error once and returns
\* false, and then no sound is loaded, isPlaying and isLoading are false and the
\* lock is free, so that the next playParagraph is accepted.
C17_FailureLeavesIdle ==
    [][\A k \in Calls :
          Fails(k) => /\ sound' = 0
                      /\ Loaded' = {}
                      /\ ~isPlaying'
                      /\ ~isLoading'
                      /\ ~operationLock']_vars

\* ---- togglePlayback

\* the coordinator's fields and the engine are as they were
CoordinatorUnchanged ==
    UNCHANGED <<sound, currentIndex, isPlaying, isLoading, operationLock,
                completionHandled, playbackSpeed, delayMs, ops, tog, clean,
                advTimers, rateFailures, engine>>

\* a togglePlayback call that passed the test of its first line, and its return
ToggleAccepted == tog.pc = "idle" /\ tog'.pc # "idle"
ToggleReturns == tog.pc # "idle" /\ tog'.pc = "idle"

\* C18: togglePlayback pauses the loaded sound when it is playing and resumes it
\* when it is paused; a call made when no sound is loaded or the lock is held
\* returns false and changes neither the engine nor the coordinator.
C18_TogglePausesOrResumes ==
    [][/\ ToggleAccepted
          => /\ engine[sound].st = "playing" => tog'.pc = "pause"
             /\ engine[sound].st = "paused" => tog'.pc = "play"
       /\ (ToggleReturns /\ toggleResult' = "true")
          => /\ tog.pc = "pause" => (engine'[tog.snd].st # "playing" /\ ~isPlaying')
             /\ tog.pc = "play" => (engine'[tog.snd].st # "paused" /\ isPlaying')
       /\ (TogglePlayback /\ (sound = 0 \/ operationLock))
          => (toggleResult' = "false" /\ CoordinatorUnchanged)]_vars

\* ---- playback rate

\* r clamped to [0.25, 4.0], in hundredths
Clamped(r) == IF r < 25 THEN 25 ELSE IF r > 400 THEN 400 ELSE r

\* C19: every setPlaybackSpeed(r) leaves the coordinator's rate and the cache's
\* rate equal to r clamped to [0.25, 4.0], nothing else changes either rate, and
\* neither is ever outside that interval.
C19_RatesClamped ==
    [][/\ \A sp \in SpeedArgs :
             (SetPlaybackSpeed(sp) \/ \E b \in BOOLEAN : SetPlaybackSpeedRejected(sp, b))
             => /\ playbackSpeed' = Clamped(sp)
                /\ currentPlaybackSpeed' = Clamped(sp)
       /\ (playbackSpeed' # playbackSpeed \/ currentPlaybackSpeed' # currentPlaybackSpeed)
          => \E sp \in SpeedArgs :
                SetPlaybackSpeed(sp) \/ \E b \in BOOLEAN : SetPlaybackSpeedRejected(sp, b)
       /\ playbackSpeed' \in 25..400
       /\ currentPlaybackSpeed' \in 25..400]_vars

\* after more than one call the last argument was below the interval and both
\* rates are at its lower end
C19_Witness ==
    inputs > 1 /\ playbackSpeed = 25 /\ currentPlaybackSpeed = 25

\* a sound is loaded and no playParagraph or togglePlayback is in flight
LoadedAndQuiet ==
    /\ sound # 0
    /\ engine[sound].st \notin {"none", "loading"}
    /\ OpsInFlight = {}
    /\ tog.pc = "idle"

\* C20: as long as the engine accepts rate changes, a setPlaybackSpeed(r) made
\* while a sound is loaded leaves that sound at r clamped to [0.25, 4.0] with
\* pitch preservation on, and whenever a sound is loaded and no operation is in
\* flight the sound's rate is the coordinator's stored rate.
C20_SoundRateFollows ==
    [][/\ \A sp \in SpeedArgs :
             (SetPlaybackSpeed(sp) /\ sound # 0 /\ engine[sound].st \notin {"none", "loading"})
             => /\ engine'[sound].rate = Clamped(sp)
                /\ engine'[sound].shouldCorrectPitch
       /\ (LoadedAndQuiet' /\ rateFailures' = <<>>)
          => engine'[sound'].rate = playbackSpeed']_vars

\* ---- setRateAsync rejected

\* what either reading of the fallback requires of a setPlaybackSpeed whose first
\* setRateAsync is rejected: at most one more call, the clamped rate stored in
\* the coordinator and in the cache, and no other field of the coordinator reset
RejectedKeepsState(sp) ==
    /\ Len(rateFailures') \in 1..2
    /\ playbackSpeed' = Clamped(sp)
    /\ currentPlaybackSpeed' = Clamped(sp)
    /\ UNCHANGED <<sound, currentIndex, isPlaying, isLoading, operationLock,
                   completionHandled, ops, tog, clean, advTimers>>

\* C21 (amended): when applying the rate to the loaded sound fails,
\* setPlaybackSpeed retries exactly once with the same arguments, pitch correction
\* still on; if the retry fails too it returns normally, resets nothing and keeps
\* the clamped rate as the stored rate.
C21_RetryOnceSameArguments ==
    [][\A sp \in SpeedArgs, b \in BOOLEAN :
          SetPlaybackSpeedRejected(sp, b)
          => /\ RejectedKeepsState(sp)
             /\ rateFailures'[1]
             /\ b => (rateFailures' = <<TRUE, TRUE>> /\ engine' = engine)
             /\ ~b => /\ rateFailures' = <<TRUE>>
                      /\ engine'[sound].rate = Clamped(sp)
                      /\ engine'[sound].shouldCorrectPitch]_vars

\* both calls were rejected: the stored rate is the clamped argument and the
\* loaded sound keeps its earlier rate
C21_Witness ==
    /\ rateFailures = <<TRUE, TRUE>>
    /\ sound # 0
    /\ playbackSpeed = 25
    /\ engine[sound].rate = 100

\* C21: when applying the rate to the loaded sound fails, setPlaybackSpeed
\* retries exactly once with pitch adjustment disabled; if the retry fails too it
\* returns normally, resets nothing and keeps the clamped rate as the stored rate.
C21_RetryWithoutPitch ==
    [][\A sp \in SpeedArgs, b \in BOOLEAN :
          SetPlaybackSpeedRejected(sp, b)
          => /\ RejectedKeepsState(sp)
             /\ rateFailures'[1]
             /\ b => (rateFailures' = <<TRUE, FALSE>> /\ engine' = engine)
             /\ ~b => /\ rateFailures' = <<TRUE>>
                      /\ engine'[sound].rate = Clamped(sp)
                      /\ ~engine'[sound].shouldCorrectPitch]_vars

\* ---- cleanup

\* a cleanup() call returns in this step: at once when no sound is loaded, or
\* after its await of unloadAsync (resolved or rejected)
CleanupReturns == (Cleanup /\ sound = 0) \/ CleanupDone

\* the state a cleanup() leaves
CleanedUp ==
    sound = 0 /\ currentIndex = 0 - 1 /\ ~isPlaying /\ ~isLoading /\ ~operationLock

\* C22: cleanup() returns in every state it is called in, leaving no sound,
\* currentIndex null, isPlaying and isLoading false; called again in the state it
\* left, it changes nothing.
C22_CleanupIdempotent ==
    [][/\ CleanupReturns => CleanedUp'
       /\ (Cleanup /\ CleanedUp) => (CleanedUp' /\ CoordinatorUnchanged)]_vars

\* a paragraph had been played, and a cleanup() has since released its sound
C22_Witness ==
    /\ playResult = "true"
    /\ CleanedUp
    /\ clean.pc = "idle"
    /\ OpsInFlight = {}
    /\ \A s \in Sounds : engine[s].st = "none"

\* a record marked received that holds no handle
Inconsistent(e) == e.present /\ e.audio_received /\ e.audio_uri = 0

\* C23: isAudioReady(i) answers true exactly for a Ready record with a handle,
\* and removes a record only when it is marked Ready without a handle: Pending,
\* Failed and consistent Ready records are left as they are.
C23_IsReadyKeepsRecords ==
    [][\A i \in Idx :
         IsAudioReady(i) =>
           /\ IsAudioReadyValue(cache, i)
                = (cache[i].present /\ cache[i].audio_received /\ cache[i].audio_uri # 0)
           /\ (cache'[i] # cache[i]) => Inconsistent(cache[i])
           /\ \A j \in Idx \ {i} : cache'[j] = cache[j]]_vars

\* the lifecycle state of a record
RecordState(e) ==
    IF ~e.present THEN "Empty"
    ELSE IF IsValid(e) THEN "Ready"
    ELSE IF e.is_loading THEN "Pending" ELSE "Failed"

\* C24: whatever the interleaving of fetch completions, seeding, eviction and
\* clearing, a Ready record is never overwritten by a Pending or a Failed record:
\* the only move out of Ready is to Empty.
C24_ReadyNeverOverwritten ==
    [][\A i \in Idx :
         RecordState(cache[i]) = "Ready" =>
           RecordState(cache'[i]) \in {"Ready", "Empty"}]_vars

\* C25: once a fetch for index j has failed, no prefetch pass issues a synthesis
\* request for j before getAudio(j) is called again, also when isAudioReady(j) is
\* called in between.
C25_NoPrefetchRetryOfFailed ==
    [][\A t \in timers :
         PrefetchPass(t) => \A r \in NewRequests : reqs'[r].idx \notin failed]_vars

\* the synthesis requests issued in this step on behalf of getAudio invocation c
FreshRequests(c) == {r \in NewRequests : reqs'[r].loader = c}

\* C26: getAudio(j) on an index whose record is Failed issues a fresh synthesis
\* request for j (the record becomes Pending); an invocation that came after a
\* failed fetch of its index returns a Ready record when the request it awaited
\* succeeded; an invocation that was waiting for a fetch issues at most one fresh
\* request when that fetch fails, and none after that.
C26_RetryAfterFailure ==
    [][/\ \A c \in Calls, j \in Idx :
            (GetAudio(c, j) /\ RecordState(cache[j]) = "Failed")
            => /\ \E r \in FreshRequests(c) : reqs'[r].idx = j
               /\ RecordState(cache'[j]) = "Pending"
       /\ \A c \in Calls :
            (Returns(c) /\ calls[c].retry /\ calls[c].req # 0 /\ ~calls[c].err)
            => calls'[c].res # 0
       /\ \A c \in Calls :
            /\ Cardinality(FreshRequests(c)) <= 1
            /\ (calls[c].st = "loading" /\ calls[c].req # 0) => FreshRequests(c) = {}]_vars

\* ---- completion test

\* position >= duration - (30 ms + (min(rate, 2.5) - 1) * 50 ms), in hundredths of ms
ClaimedNearEnd(u) ==
    100 * u.positionMillis
    >= 100 * u.durationMillis - (3000 + (Min(u.playbackSpeed, 250) - 100) * 50)

\* C27 (amended): a status callback declares completion if and only if the engine
\* reports didJustFinish, or the status is not playing, reports a non-zero position
\* and a non-zero duration, and position >= duration - threshold, where threshold =
\* 30 ms + (min(rate, 2.5) - 1) * 50 ms.
C27_CompletionWhenNotPlaying ==
    status.st = "handled"
    => (status.audioCompleted
        <=> \/ status.didJustFinish
            \/ /\ ~status.isPlaying
               /\ status.positionMillis # 0
               /\ status.durationMillis # 0
               /\ ClaimedNearEnd(status))

\* a status that is not playing, 5 ms before the end of a stream at rate 0.5, is
\* declared complete without didJustFinish
C27_Witness ==
    /\ status.st = "handled" /\ status.audioCompleted
    /\ ~status.didJustFinish /\ ~status.isPlaying
    /\ status.playbackSpeed = 50
    /\ status.positionMillis = 995 /\ status.durationMillis = 1000

\* C27 (as stated): a status callback declares completion if and only if the
\* engine reports didJustFinish or position >= duration - threshold, whatever the
\* isPlaying flag of the status.
C27_PositionAloneSuffices ==
    status.st = "handled"
    => (status.audioCompleted <=> (status.didJustFinish \/ ClaimedNearEnd(status)))

\* ---- end of the chapter

\* neither a playParagraph nor a getAudio invocation starts, no synthesis request
\* is issued and no error is reported in this step
NothingStarted ==
    /\ ops' = ops
    /\ calls' = calls
    /\ reqs' = reqs
    /\ nextReq' = nextReq
    /\ playResult' = playResult
    /\ inputs' = inputs

\* C28: when the stream of the last paragraph (index NumPar - 1) completes, the
\* completion and the auto-advance to index NumPar start no playParagraph, issue no
\* synthesis request and report no error, and the auto-advance to index NumPar (the
\* end-of-content path) is triggered exactly once for the stream.
C28_EndOfContentOnce ==
    [][/\ \A s \in Sounds :
            (engine[s].st # "none" /\ engine[s].idx = NumPar - 1)
            => /\ \A u \in Statuses(engine[s].st) : StatusCallback(s, u) => NothingStarted
               /\ (engine'[s].st # "none")
                  => engine'[s].adv = IF engine'[s].seen THEN 1 ELSE 0
       /\ AdvanceTimer(NumPar) => NothingStarted]_vars

\* ---- failures of prefetch fetches

\* the reaction of loadAudioForParagraph or of a waiting getAudio to a failed
\* fetch runs in this step
FailureReaction == MicroStep /\ Head(mq).k \in {"L", "W"} /\ ~Head(mq).ok

\* the fields of the coordinator that describe playback, and the error event
PlaybackUntouched ==
    /\ sound' = sound
    /\ currentIndex' = currentIndex
    /\ isPlaying' = isPlaying
    /\ isLoading' = isLoading
    /\ playResult' = playResult
    /\ engine' = engine

\* the indices a pass from index c at the given rate looks at
Window(c, speed) == {j \in Idx : c < j /\ j <= c + AdaptiveMaxDistance(c, speed)}

\* C29: the failure of a fetch issued by a prefetch pass, and the reactions to it,
\* report no error and change none of sound, currentIndex, isPlaying and
\* isLoading; they leave the records and requests of the other indices as they
\* are, and every pass requests each index of its window that has no record and
\* no request in flight, whatever fetches failed before.
C29_PrefetchFailureIsSilent ==
    [][/\ \A r \in Reqs :
            (RespondErr(r) /\ reqs[r].loader = 0)
            => /\ PlaybackUntouched
               /\ \A j \in Idx \ {reqs[r].idx} :
                     cache'[j] = cache[j] /\ activeRequests'[j] = activeRequests[j]
               /\ \A q \in Reqs \ {r} : reqs'[q] = reqs[q]
       /\ FailureReaction
            => /\ PlaybackUntouched
               /\ \A j \in Idx \ {Head(mq).idx} :
                     cache'[j] = cache[j] /\ activeRequests'[j] = activeRequests[j]
       /\ \A t \in timers :
            PrefetchPass(t)
            => \A j \in Window(t.idx, t.speed) :
                  (~cache[j].present /\ activeRequests[j] = 0)
                  => \E r \in NewRequests : reqs'[r].idx = j /\ reqs'[r].loader = 0]_vars

\* while paragraph 0 plays, a pass from index 0 has requested indices 1 and 2; the
\* fetch of index 1 has failed and the fetch of index 2 has succeeded
C29_Witness ==
    /\ sound # 0 /\ currentIndex = 0 /\ isPlaying /\ playResult = "true"
    /\ RecordState(cache[1]) = "Failed" /\ 1 \in failed
    /\ RecordState(cache[2]) = "Ready"
    /\ mq = <<>>

\* ---- self-healing

\* the saveParagraphAudio calls made in this step
NewSaves == archive' \ archive

\* C30: every successful synthesis of a paragraph of a content, requested by
\* getAudio or by a prefetch pass, triggers exactly one save of its file to the
\* durable archive under (the content id of the paragraph, the paragraph index),
\* and the save is not awaited.
C30_OneSavePerSynthesis ==
    [][\A r \in Reqs :
         (RespondOk(r) /\ reqs[r].ctx # 0)
         => NewSaves = {[content |-> reqs[r].ctx, idx |-> reqs[r].idx, uri |-> r,
                         st |-> "copying"]}]_vars

\* everything but the record of the saveParagraphAudio calls
NotArchive == <<cache, activeRequests, narratorVoice, dialogueVoice,
                currentPlaybackSpeed, reqs, nextReq, calls, timers, seeds,
                evicted, spared, failed, context, mq, playerVars, pass, status, ui>>

\* C31: the end of a save to the durable archive, failed or not, changes nothing
\* but the outcome of the save (null on failure): no record, request, getAudio
\* invocation or pending reaction is touched; the answer of the synthesis service
\* makes the record Ready with the synthesized file whether or not a save is
\* started, and a getAudio invocation that awaited a successful synthesis whose
\* save has failed returns what it returns when the save has succeeded.
C31_SaveFailureSwallowed ==
    [][/\ \A k \in archive, ok \in BOOLEAN :
            SaveDone(k, ok)
            => /\ UNCHANGED NotArchive
               /\ archive' = (archive \ {k})
                               \cup {[k EXCEPT !.st = IF ok THEN "saved" ELSE "failed"]}
       /\ \A r \in Reqs :
            RespondOk(r) => cache'[reqs[r].idx] = ReadyEntry(r, reqs[r].nv, reqs[r].dv)
       /\ \A c \in Calls :
            (Returns(c) /\ calls[c].req # 0 /\ ~calls[c].err
               /\ \E k \in archive : k.uri = calls[c].req /\ k.st = "failed")
            => (calls'[c].res # 0
                  => /\ IsValid(cache'[calls'[c].idx])
                     /\ cache'[calls'[c].idx].audio_uri = calls'[c].res)]_vars

\* the save of a synthesized file has failed, the record is Ready with that file
\* and a getAudio invocation has returned it
C31_Witness ==
    \E k \in archive, c \in Calls :
       /\ k.st = "failed"
       /\ IsValid(cache[k.idx]) /\ cache[k.idx].audio_uri = k.uri
       /\ calls[c].st = "returned" /\ calls[c].idx = k.idx /\ calls[c].res = k.uri

\* ---- the presentation layer

\* isTransitioning is set only while a playParagraph invocation is in flight
TransitioningOnlyInFlight == (OpsInFlight = {} /\ mq = <<>>) => ~ui.isTransitioning

\* C32: while a playParagraph invocation is in flight, no step turns the
\* presentation's isPlaying from true to false; and isTransitioning is not set
\* when no playParagraph invocation is in flight.
C32_TransitionMasked ==
    [][/\ ~(/\ ui.isPlaying /\ ~ui'.isPlaying
            /\ \E k \in Calls : ops[k].pc # "idle" /\ ops'[k].pc # "idle")
       /\ TransitioningOnlyInFlight
       /\ TransitioningOnlyInFlight']_vars

\* ---- unattended playback

IsPrefix(p, q) == Len(p) <= Len(q) /\ \A n \in 1 .. Len(p) : p[n] = q[n]

InOrder == [n \in 1 .. NumPar |-> n - 1]

\* onAutoAdvance was called with the index past the last paragraph
EndOfContent == \E s \in Sounds : engine[s].idx = NumPar - 1 /\ engine[s].adv > 0

\* C33: in unattended playback the paragraphs started are 0, 1, ..., in that
\* order and each once, and eventually all of them have been started and
\* end-of-content has been reached (so the completion of paragraph i is followed
\* by paragraph i + 1 starting, whatever the state of its record and whenever the
\* completing status callback arrives).
C33_PlaysAllInOrder ==
    /\ [](IsPrefix(ui.played, InOrder))
    /\ <>(ui.played = InOrder /\ EndOfContent)
\* The coordinator and the cache while the UI moves between two chapters.
Chapters == {0, 1}

NextChapter ==
    \/ \E i \in Idx : PlayParagraph(i)
    \/ \E n \in Chapters : LoadChapter(n)
    \/ CleanupDone
    \/ \E k \in Calls : UnloadDone(k)
    \/ \E k \in Calls : CreateDone(k)
    \/ \E r \in Reqs : RespondOk(r)
    \/ \E r \in Reqs : ProbeDone(r)
    \/ MicroStep

SpecChapter == InitPresentation /\ [][NextChapter]_vars

\* C34: a record that getAudio returns is the record of the index in the cache,
\* and its text is the text passed in the call (also after another chapter was
\* loaded into the same cache).
C34_ReturnsRecordOfText ==
    [][\A c \in Calls :
         (Returns(c) /\ calls'[c].res # 0)
         => /\ cache[calls'[c].idx].audio_uri = calls'[c].res
            /\ cache[calls'[c].idx].paragraph_text = calls'[c].text]_vars

\* the first half alone
C34_ReturnsCachedRecord ==
    [][\A c \in Calls :
         (Returns(c) /\ calls'[c].res # 0)
         => cache[calls'[c].idx].audio_uri = calls'[c].res]_vars

\* The cache under getAudio calls and cache clearing when every synthesis request
\* is answered, every duration probe ends and the event loop runs its microtasks.
\* (a call is made only while it can still issue a synthesis request of its own)
GetAudioInBudget(c, i) == nextReq \in Reqs /\ GetAudio(c, i)

NextAnswered ==
    \/ \E c \in Calls, i \in Idx : GetAudioInBudget(c, i)
    \/ \E r \in Reqs : RespondOk(r)
    \/ \E r \in Reqs : ProbeDone(r)
    \/ \E r \in Reqs : RespondErr(r)
    \/ MicroStep
    \/ \E t \in timers : PrefetchPass(t)
    \/ ClearCache

Answer == \E r \in Reqs : RespondOk(r) \/ RespondErr(r)

SpecAnswered ==
    /\ Init
    /\ [][NextAnswered]_vars
    /\ WF_vars(Answer)
    /\ WF_vars(\E r \in Reqs : ProbeDone(r))
    /\ WF_vars(MicroStep)

Suspended(c) == calls[c].st \in {"loading", "waiting"}

IsPending(i) == cache[i].present /\ cache[i].is_loading

\* C35: when every synthesis request is answered, every getAudio call returns,
\* every in-flight marker is removed and no index stays Pending forever.
C35_EveryCallReturns ==
    /\ \A c \in Calls : Suspended(c) ~> (calls[c].st = "returned")
    /\ \A i \in Idx : (activeRequests[i] # 0) ~> (activeRequests[i] = 0)
    /\ \A i \in Idx : IsPending(i) ~> ~IsPending(i)

\* no microtask, answer or probe is held back by the bounds of the model
C35_NothingHeldBack ==
    /\ mq # <<>> => ENABLED MicroStep
    /\ \A r \in Reqs : reqs[r].st = "fetching"
                         => (mq # <<>> \/ (ENABLED RespondOk(r) /\ ENABLED RespondErr(r)))
    /\ \A r \in Reqs : reqs[r].st = "probing" => (mq # <<>> \/ ENABLED ProbeDone(r))

\* a call that waited on a fetch that failed has retried and returned a record,
\* next to the call that started the fetch and got null; nothing is left in flight
C35_Witness ==
    /\ \E c, d \in Calls :
         /\ calls[c].st = "returned" /\ calls[c].res = 0
         /\ calls[d].st = "returned" /\ calls[d].res # 0 /\ calls[d].retry
         /\ calls[c].idx = calls[d].idx
    /\ \A i \in Idx : activeRequests[i] = 0 /\ ~IsPending(i)

\* the coordinator as cleanup() leaves it: no sound, not playing, no current index
CoordinatorIdle ==
    /\ sound = 0
    /\ ~isPlaying
    /\ currentIndex = 0 - 1
    /\ clean.pc = "idle"

\* a step in which playParagraph is called: by the UI, or by the auto-advance of
\* a completed sound
PlayCall ==
    \/ \E i \in Idx : PlayParagraph(i)
    \/ \E i \in advTimers : AdvanceTimer(i)
    \/ \E s \in Sounds : \E u \in Statuses(engine[s].st) : StatusCallback(s, u)

\* C36: once cleanup() has returned the coordinator stays idle (no sound, not
\* playing, no current index) until the next playParagraph call, and a
\* playParagraph that was in flight at the cleanup loads and starts no sound.
C36_IdleUntilNextCall ==
    [][(CoordinatorIdle /\ ~PlayCall)
         => /\ CoordinatorIdle'
            /\ \A s \in Sounds : engine[s].st = "none" => engine'[s].st = "none"]_vars

\* C37: a prefetch pass, whatever index its timer was scheduled for, leaves the
\* record (and so the file) of every paragraph loaded in the playback engine
\* as it was.
C37_LoadedParagraphKept ==
    [][\A t \in timers :
          PrefetchPass(t)
          => \A s \in Loaded : /\ cache'[engine[s].idx] = cache[engine[s].idx]
                                /\ engine[s].idx \notin evicted' \ evicted]_vars

\* the indices a step issues a synthesis request for
NewlyRequested == {i \in Idx : activeRequests[i] = 0 /\ activeRequests'[i] # 0}

\* C38: every index a prefetch pass for index c requests lies inside
\* [c - 3, c + maxDistance], the window its eviction step keeps, at every rate,
\* and its record is in the index when the pass ends.
C38_RequestedInsideWindow ==
    [][\A t \in timers :
          PrefetchPass(t)
          => \A i \in NewlyRequested : ~OutsideWindow(i, t.idx) /\ cache'[i].present]_vars

\* C39: at every rate in [0.25, 4.0] the completion threshold is not negative,
\* and a status that is not playing and reports a position equal to its
\* (non-zero) duration is declared complete without didJustFinish.
C39_ThresholdNonNegative ==
    (status.st = "handled" /\ status.playbackSpeed = Clamp(status.playbackSpeed))
    => /\ AdaptiveThreshold2(status.playbackSpeed) >= 0
       /\ (/\ ~status.isPlaying
           /\ ~status.didJustFinish
           /\ status.durationMillis # 0
           /\ status.positionMillis = status.durationMillis)
          => status.audioCompleted

\* the same at the rates from 0.4 up
C39_FromRate40 ==
    (status.st = "handled" /\ status.playbackSpeed >= 40)
    => /\ AdaptiveThreshold2(status.playbackSpeed) >= 0
       /\ (/\ ~status.isPlaying
           /\ ~status.didJustFinish
           /\ status.durationMillis # 0
           /\ status.positionMillis = status.durationMillis)
          => status.audioCompleted

Durable(m) == {i \in Idx : m[i].present /\ m[i].isOffline}

\* a prefetch pass removes no durable record (and so queues no durable file for
\* deletion)
C40_EvictionSparesDurable ==
    [][\A t \in timers : PrefetchPass(t) => (evicted' \ evicted) \cap Durable(cache) = {}]_vars

\* clearCache and updateVoices pass the handle of no durable record to deleteAsync
C40_ClearSparesDurableFiles ==
    \A i \in Durable(cache) : cache[i].audio_uri \notin ClearCacheFiles(cache)

\* C40: eviction, clearCache and updateVoices issue no file deletion for the
\* handle of a durable record, and no step puts a non-durable record in the
\* place of a durable record of the index.
C40_DurableNeverReplaced ==
    [][/\ \A t \in timers :
            PrefetchPass(t) => (evicted' \ evicted) \cap Durable(cache) = {}
       /\ \A i \in Durable(cache) : cache[i].audio_uri \notin ClearCacheFiles(cache)
       /\ \A i \in Durable(cache) : cache'[i].present => cache'[i].isOffline]_vars

====
